---- MODULE Spec2Model ----
(***************************************************************************)
(* aioswitcher, UDP bridge (src/src/aioswitcher/bridge.py).                *)
(*                                                                         *)
(* A datagram is a sequence of bytes (0..255), 1-indexed here, 0-indexed   *)
(* in Python: Python's message[i] is d[i+1].  A Python str is a sequence   *)
(* of one-character strings, so that slicing, int(s), int(s, 16) and       *)
(* upper() are computed as the code computes them.                         *)
(***************************************************************************)
EXTENDS Integers, Sequences, FiniteSets, TLC

VARIABLES
    datagram,     \* the bytes handed to UdpClientProtocol.datagram_received
    pc,           \* "idle": none yet, "received": one waits, "handled": it was handled
    sink,         \* devices handed to device_callback for the last datagram
    logs,         \* <<level, message>> log records of the last datagram
    raised,       \* exception leaving datagram_received ("none" if it returned)
    arrived,      \* the datagram_received calls so far, in order: [port, data]
    calls,        \* the device_callback calls so far, in order: [port, index, device],
                  \* index is the position in arrived of the datagram being handled
    is_running,   \* SwitcherBridge._is_running, per bridge
    transports,   \* SwitcherBridge._transports, per bridge: port -> transport id, 0 = absent
    tstate,       \* per transport id: "unused", "open", "closing", "closed"
    tport,        \* per transport id: the port its socket is bound to
    towner,       \* per transport id: the bridge whose start() opened it
    closeCalls,   \* per transport id: number of close() calls made on it
    waiter,       \* per transport id: the call that is suspended in the
                  \* create_datagram_endpoint that made the transport ("start",
                  \* "aenter"), "none" once that call has gone on
    lastCall,     \* per bridge: outcome of the last call that returned
    ctx,          \* per bridge: position in "async with": "out", "entering", "in"
                  \* (only b1 is used as a context manager)
    apiType,      \* the API object: "type1" (SwitcherType1Api) or "type2" (SwitcherType2Api)
    connected,    \* its connected property
    writer,       \* its stream: "none" before connect(), then "open", then "closed"
    apipc,        \* "idle", or where its operation waits: "await_login", "await_response"
    op,           \* the operation in progress or last run, "none" before the first
    exchange,     \* the writes and reads made on the stream, in order
    outcome,      \* how the last operation ended: NoOutcome, a response or an error
    info,         \* the info-level log records of the API, in order
    closes,       \* number of close() calls made on the stream
    apiCalls,     \* number of API methods called so far
    remoteCall,   \* the call made on a SwitcherBreezeRemote, with its arguments
    remoteResult  \* what that call returned or raised, NoRemoteResult before it ran

vars == <<datagram, pc, sink, logs, raised, arrived, calls, is_running, transports,
          tstate, tport, towner, closeCalls, waiter, lastCall, ctx, apiType,
          connected, writer, apipc, op, exchange, outcome, info, closes, apiCalls,
          remoteCall, remoteResult>>

parseVars == <<datagram, pc, sink, logs, raised, arrived, calls>>
bridgeVars == <<is_running, transports, tstate, tport, towner, closeCalls, waiter,
                lastCall, ctx>>
apiVars == <<apiType, connected, writer, apipc, op, exchange, outcome, info, closes,
             apiCalls>>
remoteVars == <<remoteCall, remoteResult>>

(***************************************************************************)
(* Python primitives                                                       *)
(***************************************************************************)
Min(a, b) == IF a < b THEN a ELSE b

\* s[a:b] for 0 <= a <= b, on bytes and on str: out-of-range ends are clamped
Slice(s, a, b) == SubSeq(s, a + 1, Min(b, Len(s)))

HexChars == <<"0", "1", "2", "3", "4", "5", "6", "7",
              "8", "9", "a", "b", "c", "d", "e", "f">>

\* binascii.hexlify(b).decode(): two lower-case hex digits per byte
hexlify(b) ==
    [i \in 1..(2 * Len(b)) |->
        IF i % 2 = 1 THEN HexChars[(b[(i + 1) \div 2] \div 16) + 1]
                     ELSE HexChars[(b[i \div 2] % 16) + 1]]

\* the value of one character as a digit, 16 when it is no hex digit
DigitValue(c) ==
    IF \E i \in 1..16 : HexChars[i] = c
    THEN (CHOOSE i \in 1..16 : HexChars[i] = c) - 1
    ELSE 16

\* int(s, base) accepts s iff it is non-empty and every digit is below base
IntParses(s, base) ==
    /\ Len(s) > 0
    /\ \A i \in 1..Len(s) : DigitValue(s[i]) < base

RECURSIVE IntValue(_, _)
IntValue(s, base) ==
    IF Len(s) = 0 THEN 0
    ELSE IntValue(SubSeq(s, 1, Len(s) - 1), base) * base + DigitValue(s[Len(s)])

\* results of a call: a value, or the exception it raised
Ok(v) == [raised |-> "none", value |-> v]
Raise(e) == [raised |-> e]

\* int(s, 16) and int(s)
int16(s) == IF IntParses(s, 16) THEN Ok(IntValue(s, 16)) ELSE Raise("ValueError")
int10(s) == IF IntParses(s, 10) THEN Ok(IntValue(s, 10)) ELSE Raise("ValueError")

\* str.upper() on a string of hex digits
Upper(s) ==
    [i \in 1..Len(s) |->
        CASE s[i] = "a" -> "A" [] s[i] = "b" -> "B" [] s[i] = "c" -> "C"
          [] s[i] = "d" -> "D" [] s[i] = "e" -> "E" [] s[i] = "f" -> "F"
          [] OTHER -> s[i]]

\* struct.pack("<L", n) and struct.pack(">L", n): four bytes of a uint32
packLE(n) == <<n % 256, (n \div 256) % 256, (n \div 65536) % 256, (n \div 16777216) % 256>>
packBE(n) == <<(n \div 16777216) % 256, (n \div 65536) % 256, (n \div 256) % 256, n % 256>>

\* socket.inet_ntoa(b): the dotted quad, kept as its four numbers in print order
inet_ntoa(b) == <<b[1], b[2], b[3], b[4]>>

\* length in bytes of the UTF-8 sequence that starts at s[i], 0 when ill-formed
Utf8Width(s, i) ==
    LET b0 == s[i]
        At(k) == IF i + k <= Len(s) THEN s[i + k] ELSE 0
        Cont(k) == At(k) >= 128 /\ At(k) <= 191
    IN  IF b0 <= 127 THEN 1
        ELSE IF b0 >= 194 /\ b0 <= 223 THEN (IF Cont(1) THEN 2 ELSE 0)
        ELSE IF b0 = 224 THEN (IF At(1) >= 160 /\ At(1) <= 191 /\ Cont(2) THEN 3 ELSE 0)
        ELSE IF b0 = 237 THEN (IF At(1) >= 128 /\ At(1) <= 159 /\ Cont(2) THEN 3 ELSE 0)
        ELSE IF b0 >= 225 /\ b0 <= 239 THEN (IF Cont(1) /\ Cont(2) THEN 3 ELSE 0)
        ELSE IF b0 = 240 THEN (IF At(1) >= 144 /\ At(1) <= 191 /\ Cont(2) /\ Cont(3) THEN 4 ELSE 0)
        ELSE IF b0 >= 241 /\ b0 <= 243 THEN (IF Cont(1) /\ Cont(2) /\ Cont(3) THEN 4 ELSE 0)
        ELSE IF b0 = 244 THEN (IF At(1) >= 128 /\ At(1) <= 143 /\ Cont(2) /\ Cont(3) THEN 4 ELSE 0)
        ELSE 0

\* the code point of the well-formed sequence of width w that starts at s[i]
Utf8CodePoint(s, i, w) ==
    CASE w = 1 -> s[i]
      [] w = 2 -> (s[i] % 32) * 64 + (s[i + 1] % 64)
      [] w = 3 -> (s[i] % 16) * 4096 + (s[i + 1] % 64) * 64 + (s[i + 2] % 64)
      [] OTHER -> (s[i] % 8) * 262144 + (s[i + 1] % 64) * 4096
                    + (s[i + 2] % 64) * 64 + (s[i + 3] % 64)

\* bytes.decode(): the code points, or UnicodeDecodeError
RECURSIVE Utf8From(_, _)
Utf8From(s, i) ==
    IF i > Len(s) THEN Ok(<<>>)
    ELSE LET w == Utf8Width(s, i)
         IN  IF w = 0 THEN Raise("UnicodeDecodeError")
             ELSE LET rest == Utf8From(s, i + w)
                  IN  IF rest.raised # "none" THEN rest
                      ELSE Ok(<<Utf8CodePoint(s, i, w)>> \o rest.value)

decode(s) == Utf8From(s, 1)

\* str.rstrip("\x00") on a sequence of code points
RECURSIVE rstripNul(_)
rstripNul(s) ==
    IF Len(s) > 0 /\ s[Len(s)] = 0 THEN rstripNul(SubSeq(s, 1, Len(s) - 1)) ELSE s

(***************************************************************************)
(* aioswitcher.device: the enumerations the bridge imports (bridge.py      *)
(* lines 28-41).  A member is written by its wire value.                   *)
(***************************************************************************)
WATER_HEATER == "water_heater"
POWER_PLUG_CATEGORY == "power_plug"
THERMOSTAT == "thermostat"
SHUTTER == "shutter"

DeviceCategory == {WATER_HEATER, POWER_PLUG_CATEGORY, THERMOSTAT, SHUTTER}

MkType(n, h, p, c) == [name |-> n, hex_rep |-> h, protocol_type |-> p, category |-> c]

MINI == MkType("MINI", <<"0", "3", "0", "f">>, "type1", WATER_HEATER)
POWER_PLUG == MkType("POWER_PLUG", <<"0", "1", "a", "8">>, "type1", POWER_PLUG_CATEGORY)
TOUCH == MkType("TOUCH", <<"0", "3", "0", "b">>, "type1", WATER_HEATER)
V2_ESP == MkType("V2_ESP", <<"0", "1", "a", "7">>, "type1", WATER_HEATER)
V2_QCA == MkType("V2_QCA", <<"0", "1", "a", "1">>, "type1", WATER_HEATER)
V4 == MkType("V4", <<"0", "3", "1", "7">>, "type1", WATER_HEATER)
BREEZE == MkType("BREEZE", <<"0", "e", "0", "1">>, "type2", THERMOSTAT)
RUNNER == MkType("RUNNER", <<"0", "c", "0", "1">>, "type2", SHUTTER)
RUNNER_MINI == MkType("RUNNER_MINI", <<"0", "c", "0", "2">>, "type2", SHUTTER)

DeviceType == {MINI, POWER_PLUG, TOUCH, V2_ESP, V2_QCA, V4, BREEZE, RUNNER, RUNNER_MINI}

\* DeviceState: value is the wire encoding, display the name
ON == [value |-> <<"0", "1">>, display |-> "on"]
OFF == [value |-> <<"0", "0">>, display |-> "off"]
DeviceState == {ON, OFF}

SHUTTER_STOP == [value |-> <<"0", "0", "0", "0">>, display |-> "stop"]
SHUTTER_UP == [value |-> <<"0", "1", "0", "0">>, display |-> "up"]
SHUTTER_DOWN == [value |-> <<"0", "0", "0", "1">>, display |-> "down"]
ShutterDirection == {SHUTTER_STOP, SHUTTER_UP, SHUTTER_DOWN}

MODE_AUTO == [value |-> <<"0", "1">>, display |-> "auto"]
MODE_DRY == [value |-> <<"0", "2">>, display |-> "dry"]
MODE_FAN == [value |-> <<"0", "3">>, display |-> "fan"]
MODE_COOL == [value |-> <<"0", "4">>, display |-> "cool"]
MODE_HEAT == [value |-> <<"0", "5">>, display |-> "heat"]
ThermostatMode == {MODE_AUTO, MODE_DRY, MODE_FAN, MODE_COOL, MODE_HEAT}

FAN_LOW == [value |-> <<"1">>, display |-> "low"]
FAN_MEDIUM == [value |-> <<"2">>, display |-> "medium"]
FAN_HIGH == [value |-> <<"3">>, display |-> "high"]
FAN_AUTO == [value |-> <<"0">>, display |-> "auto"]
ThermostatFanLevel == {FAN_LOW, FAN_MEDIUM, FAN_HIGH, FAN_AUTO}

SWING_OFF == [value |-> <<"0">>, display |-> "off"]
SWING_ON == [value |-> <<"1">>, display |-> "on"]
ThermostatSwing == {SWING_OFF, SWING_ON}

(***************************************************************************)
(* aioswitcher.device.tools (bridge.py line 42)                            *)
(***************************************************************************)
\* watts / 220 rounded to one decimal, as a number of tenths of an ampere
\* (no power among the datagrams below is a tie, watts = 11 mod 22)
watts_to_amps(watts) == (watts * 10 + 110) \div 220

\* the decimal digits of n, at least two of them
RECURSIVE DecimalDigits(_)
DecimalDigits(n) ==
    IF n < 10 THEN <<HexChars[n + 1]>>
    ELSE DecimalDigits(n \div 10) \o <<HexChars[(n % 10) + 1]>>

TwoDigits(n) == IF n < 10 THEN <<"0">> \o DecimalDigits(n) ELSE DecimalDigits(n)

\* seconds as "HH:MM:SS"
seconds_to_iso_time(all_seconds) ==
    LET minutes == all_seconds \div 60
        seconds == all_seconds % 60
        hours == minutes \div 60
    IN  TwoDigits(hours) \o <<":">> \o TwoDigits(minutes % 60) \o <<":">> \o TwoDigits(seconds)

(***************************************************************************)
(* DatagramParser (bridge.py lines 266-416); message is the datagram       *)
(***************************************************************************)
\* every len(message) the originator check accepts
AcceptedLength(n) == n = 165 \/ n = 168 \/ n = 159

\* mutant: the length of the datagram is not checked
is_switcher_originator_AnyLength(message) ==
    Slice(hexlify(message), 0, 4) = <<"f", "e", "f", "0">>

is_switcher_originator(message) ==
    /\ Slice(hexlify(message), 0, 4) = <<"f", "e", "f", "0">>
    /\ AcceptedLength(Len(message))

\* mutant: the address is packed big-endian, which reverses the wire order
get_ip_type1_PackBE(message) ==
    LET hex_ip == Slice(hexlify(message), 152, 160)
        ip_addr == int16(Slice(hex_ip, 6, 8) \o Slice(hex_ip, 4, 6)
                         \o Slice(hex_ip, 2, 4) \o Slice(hex_ip, 0, 2))
    IN  IF ip_addr.raised # "none" THEN ip_addr
        ELSE Ok(inet_ntoa(packBE(ip_addr.value)))

get_ip_type1(message) ==
    LET hex_ip == Slice(hexlify(message), 152, 160)
        ip_addr == int16(Slice(hex_ip, 6, 8) \o Slice(hex_ip, 4, 6)
                         \o Slice(hex_ip, 2, 4) \o Slice(hex_ip, 0, 2))
    IN  IF ip_addr.raised # "none" THEN ip_addr
        ELSE Ok(inet_ntoa(packLE(ip_addr.value)))

\* mutant: the type 2 IP field starts where the type 1 field starts
get_ip_type2_Offset76(message) ==
    LET hex_ip == Slice(hexlify(message), 152, 160)
        ip_addr == int16(Slice(hex_ip, 0, 2) \o Slice(hex_ip, 2, 4)
                         \o Slice(hex_ip, 4, 6) \o Slice(hex_ip, 6, 8))
    IN  IF ip_addr.raised # "none" THEN ip_addr
        ELSE Ok(inet_ntoa(packBE(ip_addr.value)))

get_ip_type2(message) ==
    LET hex_ip == Slice(hexlify(message), 154, 162)
        ip_addr == int16(Slice(hex_ip, 0, 2) \o Slice(hex_ip, 2, 4)
                         \o Slice(hex_ip, 4, 6) \o Slice(hex_ip, 6, 8))
    IN  IF ip_addr.raised # "none" THEN ip_addr
        ELSE Ok(inet_ntoa(packBE(ip_addr.value)))

get_mac(message) ==
    LET hex_mac == Upper(Slice(hexlify(message), 160, 172))
    IN  Ok(Slice(hex_mac, 0, 2) \o <<":">> \o Slice(hex_mac, 2, 4) \o <<":">>
           \o Slice(hex_mac, 4, 6) \o <<":">> \o Slice(hex_mac, 6, 8) \o <<":">>
           \o Slice(hex_mac, 8, 10) \o <<":">> \o Slice(hex_mac, 10, 12))

get_name(message) ==
    LET text == decode(Slice(message, 42, 74))
    IN  IF text.raised # "none" THEN text ELSE Ok(rstripNul(text.value))

get_device_id(message) == Ok(Slice(hexlify(message), 36, 42))

get_device_state(message) ==
    LET hex_device_state == Slice(hexlify(message), 266, 268)
    IN  IF hex_device_state = ON.value THEN ON ELSE OFF

get_auto_shutdown(message) ==
    LET hex_auto_shutdown_val == Slice(hexlify(message), 310, 318)
        int_auto_shutdown_val_secs ==
            int16(Slice(hex_auto_shutdown_val, 6, 8) \o Slice(hex_auto_shutdown_val, 4, 6)
                  \o Slice(hex_auto_shutdown_val, 2, 4) \o Slice(hex_auto_shutdown_val, 0, 2))
    IN  IF int_auto_shutdown_val_secs.raised # "none" THEN int_auto_shutdown_val_secs
        ELSE Ok(seconds_to_iso_time(int_auto_shutdown_val_secs.value))

\* mutant: the two power bytes are read big-endian
get_power_consumption_BigEndian(message) ==
    LET hex_power_consumption == Slice(hexlify(message), 270, 278)
    IN  int16(Slice(hex_power_consumption, 0, 2) \o Slice(hex_power_consumption, 2, 4))

get_power_consumption(message) ==
    LET hex_power_consumption == Slice(hexlify(message), 270, 278)
    IN  int16(Slice(hex_power_consumption, 2, 4) \o Slice(hex_power_consumption, 0, 2))

\* mutant: the field is read one byte early, at offset 146
get_remaining_WrongOffset(message) ==
    LET hex_remaining_time == Slice(hexlify(message), 292, 300)
        int_remaining_time_seconds ==
            int16(Slice(hex_remaining_time, 6, 8) \o Slice(hex_remaining_time, 4, 6)
                  \o Slice(hex_remaining_time, 2, 4) \o Slice(hex_remaining_time, 0, 2))
    IN  IF int_remaining_time_seconds.raised # "none" THEN int_remaining_time_seconds
        ELSE Ok(seconds_to_iso_time(int_remaining_time_seconds.value))

get_remaining(message) ==
    LET hex_remaining_time == Slice(hexlify(message), 294, 302)
        int_remaining_time_seconds ==
            int16(Slice(hex_remaining_time, 6, 8) \o Slice(hex_remaining_time, 4, 6)
                  \o Slice(hex_remaining_time, 2, 4) \o Slice(hex_remaining_time, 0, 2))
    IN  IF int_remaining_time_seconds.raised # "none" THEN int_remaining_time_seconds
        ELSE Ok(seconds_to_iso_time(int_remaining_time_seconds.value))

get_device_type(message) ==
    LET hex_model == hexlify(Slice(message, 74, 76))
    IN  IF \E d \in DeviceType : d.hex_rep = hex_model
        THEN Ok(CHOOSE d \in DeviceType : d.hex_rep = hex_model)
        ELSE Raise("KeyError")

\* mutant: the first byte is read as decimal digits, the second as a hex value
get_shutter_position_DecimalFirst(message) ==
    LET hex_pos == hexlify(Slice(message, 135, 137))
        first == int10(Slice(hex_pos, 0, 2))
        second == int16(Slice(hex_pos, 2, 4))
    IN  IF first.raised # "none" THEN first
        ELSE IF second.raised # "none" THEN second
        ELSE Ok(first.value + second.value)

get_shutter_position(message) ==
    LET hex_pos == hexlify(Slice(message, 135, 137))
        low == int10(Slice(hex_pos, 2, 4))
        high == int16(Slice(hex_pos, 0, 2))
    IN  IF low.raised # "none" THEN low
        ELSE IF high.raised # "none" THEN high
        ELSE Ok(low.value + high.value)

get_shutter_direction(message) ==
    LET hex_direction == hexlify(Slice(message, 137, 139))
    IN  IF \E d \in ShutterDirection : d.value = hex_direction
        THEN Ok(CHOOSE d \in ShutterDirection : d.value = hex_direction)
        ELSE Raise("KeyError")

\* the temperature in tenths of a degree
get_thermostat_temp(message) ==
    LET hex_temp == hexlify(Slice(message, 135, 137))
    IN  int16(Slice(hex_temp, 2, 4) \o Slice(hex_temp, 0, 2))

get_thermostat_state(message) ==
    LET hex_power == hexlify(Slice(message, 137, 138))
    IN  IF hex_power = ON.value THEN ON ELSE OFF

\* mutant: the mode is looked up like the direction, an unknown code fails
get_thermostat_mode_Strict(message) ==
    LET hex_mode == hexlify(Slice(message, 138, 139))
    IN  IF ~ \E s \in ThermostatMode : s.value = hex_mode
        THEN Raise("KeyError")
        ELSE Ok(CHOOSE s \in ThermostatMode : s.value = hex_mode)

get_thermostat_mode(message) ==
    LET hex_mode == hexlify(Slice(message, 138, 139))
    IN  IF ~ \E s \in ThermostatMode : s.value = hex_mode
        THEN Ok(MODE_COOL)
        ELSE Ok(CHOOSE s \in ThermostatMode : s.value = hex_mode)

get_thermostat_target_temp(message) ==
    LET hex_temp == hexlify(Slice(message, 139, 140))
    IN  int16(hex_temp)

get_thermostat_fan_level(message) ==
    LET hex_level == hexlify(Slice(message, 140, 141))
    IN  IF \E s \in ThermostatFanLevel : s.value = Slice(hex_level, 0, 1)
        THEN Ok(CHOOSE s \in ThermostatFanLevel : s.value = Slice(hex_level, 0, 1))
        ELSE Raise("KeyError")

get_thermostat_swing(message) ==
    LET hex_swing == hexlify(Slice(message, 140, 141))
    IN  Ok(IF Slice(hex_swing, 1, 2) = SWING_OFF.value THEN SWING_OFF ELSE SWING_ON)

get_thermostat_remote_id(message) == decode(Slice(message, 143, 151))

(***************************************************************************)
(* _parse_device_from_datagram (bridge.py lines 61-159): what handling one *)
(* datagram does to the sink, to the log and to its caller.  Constructor   *)
(* arguments are evaluated left to right; the first exception wins.        *)
(***************************************************************************)
Debug(msg) == <<"debug", msg>>
Warning(msg) == <<"warning", msg>>

Outcome(s, l, r) == [sink |-> s, logs |-> l, raised |-> r]

\* the exception of the first argument that raises, "none" when none does
FirstRaised(args) ==
    IF \E i \in 1..Len(args) : args[i].raised # "none"
    THEN args[CHOOSE i \in 1..Len(args) :
                /\ args[i].raised # "none"
                /\ \A j \in 1..(i - 1) : args[j].raised = "none"].raised
    ELSE "none"

\* logger.debug(msg); device_callback(Device(*args))
\* mutant: the device is handed to the callback when it is built and again
\* at the end of the handler
Deliver_Twice(msg, args, device) ==
    IF FirstRaised(args) = "none"
    THEN Outcome(<<device, device>>, <<Debug(msg)>>, "none")
    ELSE Outcome(<<>>, <<Debug(msg)>>, FirstRaised(args))

Deliver(msg, args, device) ==
    IF FirstRaised(args) = "none"
    THEN Outcome(<<device>>, <<Debug(msg)>>, "none")
    ELSE Outcome(<<>>, <<Debug(msg)>>, FirstRaised(args))

SwitcherWaterHeater(device_type, device_state, device_id, ip_address, mac_address, name, power_consumption, electric_current, remaining_time, auto_shutdown) ==
    [class |-> "SwitcherWaterHeater", device_type |-> device_type,
     device_state |-> device_state, device_id |-> device_id,
     ip_address |-> ip_address, mac_address |-> mac_address, name |-> name,
     power_consumption |-> power_consumption, electric_current |-> electric_current,
     remaining_time |-> remaining_time, auto_shutdown |-> auto_shutdown]

SwitcherPowerPlug(device_type, device_state, device_id, ip_address, mac_address, name, power_consumption, electric_current) ==
    [class |-> "SwitcherPowerPlug", device_type |-> device_type,
     device_state |-> device_state, device_id |-> device_id,
     ip_address |-> ip_address, mac_address |-> mac_address, name |-> name,
     power_consumption |-> power_consumption, electric_current |-> electric_current]

SwitcherShutter(device_type, device_state, device_id, ip_address, mac_address, name, position, direction) ==
    [class |-> "SwitcherShutter", device_type |-> device_type,
     device_state |-> device_state, device_id |-> device_id,
     ip_address |-> ip_address, mac_address |-> mac_address, name |-> name,
     position |-> position, direction |-> direction]

SwitcherThermostat(device_type, device_state, device_id, ip_address, mac_address, name, mode, temperature, target_temperature, fan_level, swing, remote_id) ==
    [class |-> "SwitcherThermostat", device_type |-> device_type,
     device_state |-> device_state, device_id |-> device_id,
     ip_address |-> ip_address, mac_address |-> mac_address, name |-> name,
     mode |-> mode, temperature |-> temperature,
     target_temperature |-> target_temperature, fan_level |-> fan_level,
     swing |-> swing, remote_id |-> remote_id]

\* mutant: the power is read whatever the state is
PowerAndCurrent_AlwaysRead(device_state, datagram_) ==
    LET power_consumption == get_power_consumption(datagram_)
    IN  IF power_consumption.raised # "none" THEN power_consumption
        ELSE Ok([power_consumption |-> power_consumption.value,
                 electric_current |-> watts_to_amps(power_consumption.value)])

\* lines 82-87: power_consumption and electric_current (in tenths of an
\* ampere); the power is read only when the state is ON
PowerAndCurrent(device_state, datagram_) ==
    IF device_state = ON
    THEN LET power_consumption == get_power_consumption(datagram_)
         IN  IF power_consumption.raised # "none" THEN power_consumption
             ELSE Ok([power_consumption |-> power_consumption.value,
                      electric_current |-> watts_to_amps(power_consumption.value)])
    ELSE Ok([power_consumption |-> 0, electric_current |-> 0])

\* lines 101-105: the remaining time is read only when the state is ON
RemainingTime(device_state, datagram_) ==
    IF device_state = ON THEN get_remaining(datagram_)
    ELSE Ok(<<"0", "0", ":", "0", "0", ":", "0", "0">>)

\* lines 78-81: the state byte depends on the device type
DeviceStateOf(device_type, datagram_) ==
    IF device_type = BREEZE THEN get_thermostat_state(datagram_)
    ELSE get_device_state(datagram_)

\* mutant: the shutter is built with the state the state byte holds
Dispatch_ShutterState(device_type, device_state, power_consumption, electric_current, datagram_) ==
    IF device_type.category = WATER_HEATER THEN
        LET args == <<get_device_id(datagram_), get_ip_type1(datagram_),
                      get_mac(datagram_), get_name(datagram_),
                      RemainingTime(device_state, datagram_),
                      get_auto_shutdown(datagram_)>>
        IN  Deliver("discovered a water heater switcher device", args,
                SwitcherWaterHeater(device_type, device_state, args[1].value,
                    args[2].value, args[3].value, args[4].value, power_consumption,
                    electric_current, args[5].value, args[6].value))
    ELSE IF device_type.category = POWER_PLUG_CATEGORY THEN
        LET args == <<get_device_id(datagram_), get_ip_type1(datagram_),
                      get_mac(datagram_), get_name(datagram_)>>
        IN  Deliver("discovered a power plug switcher device", args,
                SwitcherPowerPlug(device_type, device_state, args[1].value,
                    args[2].value, args[3].value, args[4].value, power_consumption,
                    electric_current))
    ELSE IF device_type.category = SHUTTER THEN
        LET args == <<get_device_id(datagram_), get_ip_type2(datagram_),
                      get_mac(datagram_), get_name(datagram_),
                      get_shutter_position(datagram_),
                      get_shutter_direction(datagram_)>>
        IN  Deliver("discovered a Runner switch switcher device", args,
                SwitcherShutter(device_type, device_state, args[1].value, args[2].value,
                    args[3].value, args[4].value, args[5].value, args[6].value))
    ELSE IF device_type.category = THERMOSTAT THEN
        LET args == <<get_device_id(datagram_), get_ip_type2(datagram_),
                      get_mac(datagram_), get_name(datagram_),
                      get_thermostat_mode(datagram_), get_thermostat_temp(datagram_),
                      get_thermostat_target_temp(datagram_),
                      get_thermostat_fan_level(datagram_),
                      get_thermostat_swing(datagram_),
                      get_thermostat_remote_id(datagram_)>>
        IN  Deliver("discovered a Breeze switcher device", args,
                SwitcherThermostat(device_type, device_state, args[1].value,
                    args[2].value, args[3].value, args[4].value, args[5].value,
                    args[6].value, args[7].value, args[8].value, args[9].value,
                    args[10].value))
    ELSE Outcome(<<>>, <<Warning("discovered an unknown switcher device")>>, "none")

\* lines 89-159, once the device type, the state and the power are known
Dispatch(device_type, device_state, power_consumption, electric_current, datagram_) ==
    IF device_type.category = WATER_HEATER THEN
        LET args == <<get_device_id(datagram_), get_ip_type1(datagram_),
                      get_mac(datagram_), get_name(datagram_),
                      RemainingTime(device_state, datagram_),
                      get_auto_shutdown(datagram_)>>
        IN  Deliver("discovered a water heater switcher device", args,
                SwitcherWaterHeater(device_type, device_state, args[1].value,
                    args[2].value, args[3].value, args[4].value, power_consumption,
                    electric_current, args[5].value, args[6].value))
    ELSE IF device_type.category = POWER_PLUG_CATEGORY THEN
        LET args == <<get_device_id(datagram_), get_ip_type1(datagram_),
                      get_mac(datagram_), get_name(datagram_)>>
        IN  Deliver("discovered a power plug switcher device", args,
                SwitcherPowerPlug(device_type, device_state, args[1].value,
                    args[2].value, args[3].value, args[4].value, power_consumption,
                    electric_current))
    ELSE IF device_type.category = SHUTTER THEN
        LET args == <<get_device_id(datagram_), get_ip_type2(datagram_),
                      get_mac(datagram_), get_name(datagram_),
                      get_shutter_position(datagram_),
                      get_shutter_direction(datagram_)>>
        IN  Deliver("discovered a Runner switch switcher device", args,
                SwitcherShutter(device_type, ON, args[1].value, args[2].value,
                    args[3].value, args[4].value, args[5].value, args[6].value))
    ELSE IF device_type.category = THERMOSTAT THEN
        LET args == <<get_device_id(datagram_), get_ip_type2(datagram_),
                      get_mac(datagram_), get_name(datagram_),
                      get_thermostat_mode(datagram_), get_thermostat_temp(datagram_),
                      get_thermostat_target_temp(datagram_),
                      get_thermostat_fan_level(datagram_),
                      get_thermostat_swing(datagram_),
                      get_thermostat_remote_id(datagram_)>>
        IN  Deliver("discovered a Breeze switcher device", args,
                SwitcherThermostat(device_type, device_state, args[1].value,
                    args[2].value, args[3].value, args[4].value, args[5].value,
                    args[6].value, args[7].value, args[8].value, args[9].value,
                    args[10].value))
    ELSE Outcome(<<>>, <<Warning("discovered an unknown switcher device")>>, "none")

_parse_device_from_datagram(datagram_) ==
    IF ~ is_switcher_originator(datagram_)
    THEN Outcome(<<>>, <<Debug("received datagram from an unknown source")>>, "none")
    ELSE LET device_type == get_device_type(datagram_)
         IN  IF device_type.raised # "none"
             THEN Outcome(<<>>, <<>>, device_type.raised)
             ELSE LET device_state == DeviceStateOf(device_type.value, datagram_)
                      power == PowerAndCurrent(device_state, datagram_)
                  IN  IF power.raised # "none"
                      THEN Outcome(<<>>, <<>>, power.raised)
                      ELSE Dispatch(device_type.value, device_state,
                                    power.value.power_consumption,
                                    power.value.electric_current, datagram_)

(***************************************************************************)
(* Datagrams received: every byte is zero but the fields written below.    *)
(***************************************************************************)
\* the bytes b written at offset off (0-based) cover position i (1-based)
Covers(off, b, i) == i > off /\ i <= off + Len(b)

\* a datagram of n bytes: magic at 0, device id 3933ac at 18, name at 42, model
\* code at 74, IP at 76, MAC tail at 81, state at 133, value at 135, direction
\* at 137, target temperature 24 at 139, fan at 140, remote id head "ELEC" at
\* 143, tail at 147, auto shutdown 3600 s at 155
Datagram(n, magic, code, ip, name, state, value, direction, fan, tail) ==
    [i \in 1..n |->
        CASE Covers(0, magic, i) -> magic[i]
          [] Covers(18, <<57, 51, 172>>, i) -> <<57, 51, 172>>[i - 18]
          [] Covers(42, name, i) -> name[i - 42]
          [] Covers(74, code, i) -> code[i - 74]
          [] Covers(76, ip, i) -> ip[i - 76]
          [] Covers(81, <<18, 52, 86, 120, 154>>, i) -> <<18, 52, 86, 120, 154>>[i - 81]
          [] Covers(133, state, i) -> state[i - 133]
          [] Covers(135, value, i) -> value[i - 135]
          [] Covers(137, direction, i) -> direction[i - 137]
          [] Covers(139, <<24>>, i) -> 24
          [] Covers(140, fan, i) -> fan[i - 140]
          [] Covers(143, <<69, 76, 69, 67>>, i) -> <<69, 76, 69, 67>>[i - 143]
          [] Covers(147, tail, i) -> tail[i - 147]
          [] Covers(155, <<16, 14, 0, 0>>, i) -> <<16, 14, 0, 0>>[i - 155]
          [] OTHER -> 0]

Lengths == {0, 1, 158, 159, 160, 165, 168}
AcceptedLengths == {n \in Lengths : AcceptedLength(n)}
Magics == {<<254, 240>>, <<222, 173>>, <<254, 0>>, <<0, 240>>}
\* MINI, POWER_PLUG, RUNNER, BREEZE, V4, RUNNER_MINI, and two codes of no DeviceType
ModelCodes == {<<3, 15>>, <<1, 168>>, <<12, 1>>, <<14, 1>>, <<3, 23>>, <<12, 2>>,
               <<255, 255>>, <<0, 0>>}
Type1Codes == {<<3, 15>>, <<1, 168>>}
ShutterCodes == {<<12, 1>>, <<12, 2>>}
BreezeCodes == {<<14, 1>>}
\* bytes 76..80: both IP fields, the last one is also the first MAC byte
IpBytes == {<<4, 3, 2, 1, 171>>, <<10, 100, 1, 50, 0>>}
\* bytes 42..43 of the name: "Bo", U+00E9, an ill-formed sequence, empty
NameBytes == {<<66, 111>>, <<195, 169>>, <<255, 0>>, <<0, 0>>}
StateBytes == {<<0>>, <<1>>, <<2>>}
\* bytes 135..136 as the power of a type 1 device
PowerBytes == {<<a, b>> : a \in {0, 10, 160}, b \in {0, 5}}
\* bytes 135..136 as the position of a shutter
PositionBytes == {<<a, b>> : a \in {0, 10, 50, 160}, b \in {0, 5, 26}}
\* bytes 135..136 as the temperature of a thermostat
TempBytes == {<<0, 0>>, <<10, 1>>}
\* bytes 137..138 as the direction of a shutter
DirectionBytes == {<<0, 0>>, <<1, 0>>, <<0, 1>>, <<1, 1>>}
\* bytes 137..138 as the state and the mode of a thermostat
ModeBytes == {<<a, b>> : a \in {0, 1}, b \in {0, 1, 4}}
\* byte 140: fan level (high nibble) and swing (low nibble)
FanBytes == {<<0>>, <<17>>, <<64>>}
\* bytes 147..150: remaining seconds, also the tail of the thermostat's remote id
TailBytes == {<<14, 16, 0, 0>>, <<0, 0, 0, 0>>, <<255, 0, 0, 0>>}

GateDatagrams ==
    {Datagram(n, magic, code, <<4, 3, 2, 1, 171>>, name, <<1>>, <<160, 5>>,
              <<0, 0>>, <<0>>, <<14, 16, 0, 0>>) :
        n \in Lengths, magic \in Magics, code \in ModelCodes, name \in NameBytes}

Type1Datagrams ==
    {Datagram(n, <<254, 240>>, code, ip, name, state, value, <<0, 0>>, <<0>>, tail) :
        n \in AcceptedLengths, code \in Type1Codes, ip \in IpBytes,
        name \in {<<66, 111>>, <<255, 0>>}, state \in StateBytes,
        value \in PowerBytes, tail \in TailBytes}

ShutterDatagrams ==
    {Datagram(n, <<254, 240>>, code, ip, <<66, 111>>, state, value, direction,
              <<0>>, <<0, 0, 0, 0>>) :
        n \in AcceptedLengths, code \in ShutterCodes, ip \in IpBytes,
        state \in {<<0>>, <<1>>}, value \in PositionBytes,
        direction \in DirectionBytes}

BreezeDatagrams ==
    {Datagram(n, <<254, 240>>, code, ip, <<66, 111>>, <<0>>, value, mode, fan, tail) :
        n \in AcceptedLengths, code \in BreezeCodes, ip \in IpBytes,
        value \in TempBytes, mode \in ModeBytes, fan \in FanBytes,
        tail \in {<<14, 16, 0, 0>>, <<255, 0, 0, 0>>}}

Datagrams == GateDatagrams \cup Type1Datagrams \cup ShutterDatagrams \cup BreezeDatagrams

(***************************************************************************)
(* Handling one datagram: UdpClientProtocol.datagram_received              *)
(* (bridge.py lines 247-249) calls _parse_device_from_datagram with the    *)
(* bridge's on_device as the sink.  It runs to its end inside one callback *)
(* of the event loop.                                                      *)
(***************************************************************************)
SWITCHER_UDP_PORT_TYPE1 == 20002
SWITCHER_UDP_PORT_TYPE2 == 20003

\* the port the devices of each category broadcast to
SWITCHER_DEVICE_TO_UDP_PORT ==
    [c \in DeviceCategory |->
        IF c \in {WATER_HEATER, POWER_PLUG_CATEGORY} THEN SWITCHER_UDP_PORT_TYPE1
        ELSE SWITCHER_UDP_PORT_TYPE2]

\* the call datagram_received(d) of the protocol of the socket on port p, and
\* the device_callback calls made before it returns
Record(p, d, out) ==
    /\ arrived' = Append(arrived, [port |-> p, data |-> d])
    /\ calls' = calls \o [i \in 1..Len(out.sink) |->
                            [port |-> p, index |-> Len(arrived) + 1,
                             device |-> out.sink[i]]]

Handle(d) ==
    LET out == _parse_device_from_datagram(d)
    IN  /\ sink' = out.sink
        /\ logs' = out.logs
        /\ raised' = out.raised
        /\ pc' = "handled"
        /\ Record(SWITCHER_UDP_PORT_TYPE1, d, out)

\* the protocol does not see the port of its socket: the datagram is taken to
\* have come in on the first one
datagram_received ==
    /\ pc = "received"
    /\ Handle(datagram)
    /\ UNCHANGED datagram
    /\ UNCHANGED bridgeVars
    /\ UNCHANGED <<apiVars, remoteVars>>

(***************************************************************************)
(* SwitcherBridge (bridge.py lines 162-231).  Bridge b1 has the default    *)
(* ports, bridge b2 listens for type 2 devices only.  Both run on one      *)
(* host, so they compete for the ports.                                    *)
(***************************************************************************)
Bridges == {"b1", "b2"}

\* SwitcherBridge._broadcast_ports
broadcast_ports(b) ==
    IF b = "b1" THEN <<SWITCHER_UDP_PORT_TYPE1, SWITCHER_UDP_PORT_TYPE2>>
    ELSE <<SWITCHER_UDP_PORT_TYPE2>>

AllPorts == {SWITCHER_UDP_PORT_TYPE1, SWITCHER_UDP_PORT_TYPE2}

\* the model stops creating sockets after this many
MaxTransports == 3

TransportIds == 1..Len(tstate)

\* BaseTransport.is_closing()
is_closing(t) == tstate[t] # "open"

\* mutant: the sockets are bound with reuse_port, so a bind never fails
PortInUse_ReusePort(p) == FALSE

\* the socket of a transport holds its port until the transport is closed
PortInUse(p) == \E t \in TransportIds : tport[t] = p /\ tstate[t] # "closed"

\* SwitcherBridge.__init__
BridgeInit ==
    /\ is_running = [b \in Bridges |-> FALSE]
    /\ transports = [b \in Bridges |-> [p \in AllPorts |-> 0]]
    /\ tstate = <<>>
    /\ tport = <<>>
    /\ towner = <<>>
    /\ closeCalls = <<>>
    /\ waiter = <<>>
    /\ lastCall = [b \in Bridges |-> "none"]
    /\ ctx = [b \in Bridges |-> "out"]

\* the position of port p among the ports of bridge b
PortIndex(b, p) == CHOOSE i \in 1..Len(broadcast_ports(b)) : broadcast_ports(b)[i] = p

\* create_datagram_endpoint, awaited on line 205, up to its suspension: the
\* socket is bound at once, the transport is made, and the call (via) waits
\* for the loop; waiters is who waits on the older transports
Endpoint(b, broadcast_port, waiters, via) ==
    /\ Len(tstate) < MaxTransports
    /\ tstate' = Append(tstate, "open")
    /\ tport' = Append(tport, broadcast_port)
    /\ towner' = Append(towner, b)
    /\ closeCalls' = Append(closeCalls, 0)
    /\ waiter' = Append(waiters, via)

\* mutant: the bind error is caught and start() ends as if every port were
\* bound
BindNext_SwallowsError(b, k, waiters, via) ==
    IF PortInUse(broadcast_ports(b)[k])
    THEN /\ is_running' = [is_running EXCEPT ![b] = TRUE]
         /\ lastCall' = [lastCall EXCEPT ![b] = "start_ok"]
         /\ ctx' = [ctx EXCEPT ![b] = IF via = "aenter" THEN "in" ELSE @]
         /\ waiter' = waiters
         /\ UNCHANGED <<tstate, tport, towner, closeCalls>>
    ELSE /\ Endpoint(b, broadcast_ports(b)[k], waiters, via)
         /\ ctx' = [ctx EXCEPT ![b] = IF via = "aenter" THEN "entering" ELSE @]
         /\ UNCHANGED <<is_running, lastCall>>

\* one turn of the loop of start(), lines 200-209, for the k-th port: the
\* bind raises, and the OSError leaves start() (and __aenter__, whose block
\* is then not entered) with line 213 not reached, or the call is suspended
\* with the port bound and the transport not yet recorded
BindNext(b, k, waiters, via) ==
    IF PortInUse(broadcast_ports(b)[k])
    THEN \* OSError: address already in use
         /\ lastCall' = [lastCall EXCEPT ![b] = "start_raised"]
         /\ ctx' = [ctx EXCEPT ![b] = IF via = "aenter" THEN "out" ELSE @]
         /\ waiter' = waiters
         /\ UNCHANGED <<is_running, tstate, tport, towner, closeCalls>>
    ELSE /\ Endpoint(b, broadcast_ports(b)[k], waiters, via)
         /\ ctx' = [ctx EXCEPT ![b] = IF via = "aenter" THEN "entering" ELSE @]
         /\ UNCHANGED <<is_running, lastCall>>

\* a caller awaits start(): the call runs to its first suspension or raises
\* at the bind of the first port
start(b) ==
    /\ BindNext(b, 1, waiter, "start")
    /\ UNCHANGED transports
    /\ UNCHANGED parseVars
    /\ UNCHANGED <<apiVars, remoteVars>>

\* start() from one suspension to the next, lines 205-213: the loop resumes
\* the call that waits on transport t; line 210 records the transport, then
\* the bind of the next port raises or suspends the call again, or, after
\* the last port, line 213 sets _is_running and start() returns
start_resume(t) ==
    /\ waiter[t] # "none"
    /\ LET b == towner[t]
           k == PortIndex(b, tport[t])
           gone == [waiter EXCEPT ![t] = "none"]
       IN  /\ transports' = [transports EXCEPT ![b][tport[t]] = t]
           /\ IF k = Len(broadcast_ports(b))
              THEN /\ is_running' = [is_running EXCEPT ![b] = TRUE]
                   /\ lastCall' = [lastCall EXCEPT ![b] = "start_ok"]
                   /\ ctx' = [ctx EXCEPT ![b] = IF waiter[t] = "aenter" THEN "in" ELSE @]
                   /\ waiter' = gone
                   /\ UNCHANGED <<tstate, tport, towner, closeCalls>>
              ELSE BindNext(b, k + 1, gone, waiter[t])
    /\ UNCHANGED parseVars
    /\ UNCHANGED <<apiVars, remoteVars>>

\* mutant: the negation of is_closing() is lost
ShouldClose_IfClosing(transport) == transport # 0 /\ is_closing(transport)

\* stop(), line 220: the transports stop() calls close() on
ShouldClose(transport) == transport # 0 /\ ~ is_closing(transport)

\* mutant: stop() closes the transports and leaves _is_running as it is
StopBody_KeepsRunning(b, call) ==
    LET ports == {broadcast_ports(b)[i] : i \in 1..Len(broadcast_ports(b))}
        closing == {transports[b][p] : p \in ports} \cap
                   {t \in TransportIds : ShouldClose(t)}
    IN  /\ tstate' = [t \in TransportIds |-> IF t \in closing THEN "closing" ELSE tstate[t]]
        /\ closeCalls' = [t \in TransportIds |->
                            IF t \in closing THEN closeCalls[t] + 1 ELSE closeCalls[t]]
        /\ is_running' = is_running
        /\ lastCall' = [lastCall EXCEPT ![b] = call]

\* stop(), lines 217-226; it has no await, so it runs in one step
StopBody(b, call) ==
    LET ports == {broadcast_ports(b)[i] : i \in 1..Len(broadcast_ports(b))}
        closing == {transports[b][p] : p \in ports} \cap
                   {t \in TransportIds : ShouldClose(t)}
    IN  /\ tstate' = [t \in TransportIds |-> IF t \in closing THEN "closing" ELSE tstate[t]]
        /\ closeCalls' = [t \in TransportIds |->
                            IF t \in closing THEN closeCalls[t] + 1 ELSE closeCalls[t]]
        /\ is_running' = [is_running EXCEPT ![b] = FALSE]
        /\ lastCall' = [lastCall EXCEPT ![b] = call]

stop(b) ==
    /\ StopBody(b, "stop")
    /\ UNCHANGED <<transports, tport, towner, waiter, ctx>>
    /\ UNCHANGED parseVars
    /\ UNCHANGED <<apiVars, remoteVars>>

\* "async with bridge": __aenter__ awaits start(), up to its first
\* suspension; when the first bind raises, the block is not entered
aenter(b) ==
    /\ ctx[b] = "out"
    /\ BindNext(b, 1, waiter, "aenter")
    /\ UNCHANGED transports
    /\ UNCHANGED parseVars
    /\ UNCHANGED <<apiVars, remoteVars>>

\* the body of "async with bridge" is left: __aexit__ awaits stop()
aexit(b) ==
    /\ ctx[b] = "in"
    /\ StopBody(b, "aexit")
    /\ ctx' = [ctx EXCEPT ![b] = "out"]
    /\ UNCHANGED <<transports, tport, towner, waiter>>
    /\ UNCHANGED parseVars
    /\ UNCHANGED <<apiVars, remoteVars>>

\* the event loop finishes a close(): the socket is closed, the port is free
connection_lost(t) ==
    /\ tstate[t] = "closing"
    /\ tstate' = [tstate EXCEPT ![t] = "closed"]
    /\ UNCHANGED <<is_running, transports, tport, towner, closeCalls, waiter,
                   lastCall, ctx>>
    /\ UNCHANGED parseVars
    /\ UNCHANGED <<apiVars, remoteVars>>

\* the datagrams the running bridges receive: a water heater that is on and
\* one of unknown origin
BridgeDatagrams ==
    {Datagram(165, <<254, 240>>, <<3, 15>>, <<4, 3, 2, 1, 171>>, <<66, 111>>, <<1>>,
              <<160, 5>>, <<0, 0>>, <<0>>, <<14, 16, 0, 0>>),
     Datagram(165, <<222, 173>>, <<3, 15>>, <<4, 3, 2, 1, 171>>, <<66, 111>>, <<1>>,
              <<160, 5>>, <<0, 0>>, <<0>>, <<14, 16, 0, 0>>)}

\* the same and a shutter that is stopped at position 55, for a bridge that
\* is sent datagrams of both protocol types on both of its ports
PortDatagrams ==
    BridgeDatagrams \cup
    {Datagram(159, <<254, 240>>, <<12, 1>>, <<4, 3, 2, 1, 171>>, <<66, 111>>, <<0>>,
              <<50, 5>>, <<0, 0>>, <<0>>, <<14, 16, 0, 0>>)}

\* what handling each of them does
BridgeOutcomes == [d \in PortDatagrams |-> _parse_device_from_datagram(d)]

\* the model stops receiving datagrams after this many
MaxReceived == 4

\* with two bridges (Spec) it stops after this many
MaxReceivedSpec == 2

\* the device ids of the devices handed to the sink so far
DeliveredIds == {calls[i].device.device_id : i \in 1..Len(calls)}

\* mutant: a device whose device_id was delivered before is not delivered again
receive_Dedup(t, d) ==
    LET out == BridgeOutcomes[d]
        fresh == SelectSeq(out.sink, LAMBDA dev : dev.device_id \notin DeliveredIds)
    IN  /\ tstate[t] = "open"
        /\ waiter[t] = "none"
        /\ Len(arrived) < MaxReceived
        /\ datagram' = d
        /\ sink' = fresh
        /\ logs' = out.logs
        /\ raised' = out.raised
        /\ pc' = "handled"
        /\ Record(tport[t], d, [out EXCEPT !.sink = fresh])
        /\ UNCHANGED bridgeVars
        /\ UNCHANGED <<apiVars, remoteVars>>

\* mutant: the sink call is put off and the calls put off run last in, first out
receive_Deferred(t, d) ==
    /\ tstate[t] = "open"
    /\ waiter[t] = "none"
    /\ Len(arrived) < MaxReceived
    /\ datagram' = d
    /\ sink' = BridgeOutcomes[d].sink
    /\ logs' = BridgeOutcomes[d].logs
    /\ raised' = BridgeOutcomes[d].raised
    /\ pc' = "handled"
    /\ arrived' = Append(arrived, [port |-> tport[t], data |-> d])
    /\ calls' = [i \in 1..Len(BridgeOutcomes[d].sink) |->
                    [port |-> tport[t], index |-> Len(arrived) + 1,
                     device |-> BridgeOutcomes[d].sink[i]]] \o calls
    /\ UNCHANGED bridgeVars
    /\ UNCHANGED <<apiVars, remoteVars>>

\* mutant: the protocol of a port hands on only the devices of that port
receive_OwnPortOnly(t, d) ==
    LET out == BridgeOutcomes[d]
        own == SelectSeq(out.sink, LAMBDA dev :
                   SWITCHER_DEVICE_TO_UDP_PORT[dev.device_type.category] = tport[t])
    IN  /\ tstate[t] = "open"
        /\ waiter[t] = "none"
        /\ Len(arrived) < MaxReceived
        /\ datagram' = d
        /\ sink' = own
        /\ logs' = out.logs
        /\ raised' = out.raised
        /\ pc' = "handled"
        /\ Record(tport[t], d, [out EXCEPT !.sink = own])
        /\ UNCHANGED bridgeVars
        /\ UNCHANGED <<apiVars, remoteVars>>

\* a datagram reaches an open socket: the loop calls datagram_received, which
\* runs to its end (sink call included) before the loop reads another datagram
\* the loop resumes the start() that waits on the socket before it reads the
\* socket, so no datagram is handled on a transport whose start() still waits
receive(t, d) ==
    /\ tstate[t] = "open"
    /\ waiter[t] = "none"
    /\ Len(arrived) < MaxReceived
    /\ datagram' = d
    /\ sink' = BridgeOutcomes[d].sink
    /\ logs' = BridgeOutcomes[d].logs
    /\ raised' = BridgeOutcomes[d].raised
    /\ pc' = "handled"
    /\ Record(tport[t], d, BridgeOutcomes[d])
    /\ UNCHANGED bridgeVars
    /\ UNCHANGED <<apiVars, remoteVars>>

(***************************************************************************)
(* aioswitcher.api: the TCP session of SwitcherType1Api and                *)
(* SwitcherType2Api, as sections 4.3 and 4.5 of the specification and the  *)
(* tests (tests/test_api_tcp_client.py) give it.  A packet is written by   *)
(* its command and its session token field, bytes 8..11 of the frame; the  *)
(* counter, the timestamp, the body and the CRC are not part of it.        *)
(***************************************************************************)
ApiTypes == {"type1", "type2"}

\* the operations of each API class: the public methods the tests call on a
\* SwitcherType1Api and on a SwitcherType2Api (control_device on both, line
\* 341); an operation is called with arguments it accepts
OperationsOf(t) ==
    IF t = "type1"
    THEN {"get_state", "control_device", "set_device_name", "set_auto_shutdown",
          "get_schedules", "delete_schedule", "create_schedule"}
    ELSE {"control_device", "get_breeze_state", "control_breeze_device",
          "get_shutter_state", "set_position", "stop"}

Operations == OperationsOf("type1") \cup OperationsOf("type2")

StateQueries == {"get_state", "get_breeze_state", "get_shutter_state"}

LoginFailedMessage == "login request was not successful"

\* "<operation> request was not successful"
RequestFailedMessage(o) ==
    CASE o = "get_state" -> "get state request was not successful"
      [] o = "get_breeze_state" -> "get breeze state request was not successful"
      [] o = "get_shutter_state" -> "get shutter state request was not successful"
      [] o = "control_device" -> "control device request was not successful"
      [] o = "control_breeze_device" -> "control breeze device request was not successful"
      [] o = "set_position" -> "set position request was not successful"
      [] o = "set_device_name" -> "set device name request was not successful"
      [] o = "set_auto_shutdown" -> "set auto shutdown request was not successful"
      [] o = "get_schedules" -> "get schedules request was not successful"
      [] o = "delete_schedule" -> "delete schedule request was not successful"
      [] o = "create_schedule" -> "create schedule request was not successful"
      [] OTHER -> "stop request was not successful"

\* the response type an operation returns
ResponseClass(o) ==
    CASE o = "get_state" -> "SwitcherStateResponse"
      [] o = "get_breeze_state" -> "SwitcherThermostatStateResponse"
      [] o = "get_shutter_state" -> "SwitcherShutterStateResponse"
      [] o = "get_schedules" -> "SwitcherGetSchedulesResponse"
      [] OTHER -> "SwitcherBaseResponse"

\* the session token field before login, 0xFFFFFFFE little-endian
PRE_LOGIN_SESSION == <<254, 255, 255, 255>>

LoginPacket(t) ==
    [command |-> IF t = "type1" THEN "login" ELSE "login2", session |-> PRE_LOGIN_SESSION]

\* the request of operation o, with the session token as a uint32 little-endian
RequestPacket(o, token) == [command |-> o, session |-> packLE(token)]

\* a login response is well-formed when it holds the token field
LoginSuccessful(response) == Len(response) >= 20

\* mutant: the token is read at offset 8
session_token_Offset8(response) ==
    response[9] + 256 * response[10] + 65536 * response[11] + 16777216 * response[12]

\* LoginResponse.session_token: the uint32 little-endian at offset 16
session_token(response) ==
    response[17] + 256 * response[18] + 65536 * response[19] + 16777216 * response[20]

\* the records of exchange
Call(o) == [kind |-> "call", op |-> o]
Write(p) == [kind |-> "write", packet |-> p]
Read(d) == [kind |-> "read", data |-> d]

\* how an operation ends
NoOutcome == [status |-> "none", message |-> "", class |-> "", unparsed_response |-> <<>>]
Failed(msg) == [status |-> "raised", message |-> msg, class |-> "RuntimeError", unparsed_response |-> <<>>]
Returned(cls, d) == [status |-> "returned", message |-> "", class |-> cls, unparsed_response |-> d]

\* the model stops calling API methods after this many
MaxApiCalls == 3

\* the bytes a read returns: nothing (the peer closed the connection), or a
\* login response with its token at offset 16, or the response to a request
LoginResponseBytes(token) ==
    [i \in 1..24 |->
        CASE i = 1 -> 254
          [] i = 2 -> 240
          [] i \in 9..12 -> 17 * (i - 8)
          [] i \in 17..20 -> token[i - 16]
          [] OTHER -> 0]

Tokens == {<<52, 18, 205, 0>>, <<120, 86, 52, 18>>}
LoginReads == {<<>>} \cup {LoginResponseBytes(token) : token \in Tokens}
ResponseReads == {<<>>, <<254, 240, 1, 0, 2, 0>>}

\* an API object of one of the classes types, as its __init__ leaves it
ApiInit(types) ==
    /\ apiType \in types
    /\ connected = FALSE
    /\ writer = "none"
    /\ apipc = "idle"
    /\ op = "none"
    /\ exchange = <<>>
    /\ outcome = NoOutcome
    /\ info = <<>>
    /\ closes = 0
    /\ apiCalls = 0

\* connect(): open_connection returns the stream
connect ==
    /\ writer = "none"
    /\ apiCalls < MaxApiCalls
    /\ writer' = "open"
    /\ connected' = TRUE
    /\ apiCalls' = apiCalls + 1
    /\ UNCHANGED <<apiType, apipc, op, exchange, outcome, info, closes>>
    /\ UNCHANGED <<parseVars, bridgeVars, remoteVars>>

\* mutant: the request is written with the login packet, before any read
call_Pipelined(o) ==
    /\ connected
    /\ writer = "open"
    /\ apipc = "idle"
    /\ o \in OperationsOf(apiType)
    /\ apiCalls < MaxApiCalls
    /\ op' = o
    /\ exchange' = exchange \o <<Call(o), Write(LoginPacket(apiType)),
                                 Write([command |-> o, session |-> PRE_LOGIN_SESSION])>>
    /\ apipc' = "await_login"
    /\ outcome' = NoOutcome
    /\ apiCalls' = apiCalls + 1
    /\ UNCHANGED <<apiType, connected, writer, info, closes>>
    /\ UNCHANGED <<parseVars, bridgeVars, remoteVars>>

\* an operation is called on the connected API: it writes the login packet
\* and waits for the read
call(o) ==
    /\ connected
    /\ writer = "open"
    /\ apipc = "idle"
    /\ o \in OperationsOf(apiType)
    /\ apiCalls < MaxApiCalls
    /\ op' = o
    /\ exchange' = exchange \o <<Call(o), Write(LoginPacket(apiType))>>
    /\ apipc' = "await_login"
    /\ outcome' = NoOutcome
    /\ apiCalls' = apiCalls + 1
    /\ UNCHANGED <<apiType, connected, writer, info, closes>>
    /\ UNCHANGED <<parseVars, bridgeVars, remoteVars>>

\* mutant: the request is written whatever the login response is
read_login_NoCheck(data) ==
    /\ apipc = "await_login"
    /\ exchange' = exchange \o <<Read(data),
                                 Write([command |-> op, session |-> PRE_LOGIN_SESSION])>>
    /\ apipc' = "await_response"
    /\ UNCHANGED <<apiType, connected, writer, op, outcome, info, closes, apiCalls>>
    /\ UNCHANGED <<parseVars, bridgeVars, remoteVars>>

\* the read after the login packet returns: the operation fails, or it takes
\* the session token, writes its request and waits for the next read
read_login(data) ==
    /\ apipc = "await_login"
    /\ IF ~ LoginSuccessful(data)
       THEN /\ exchange' = Append(exchange, Read(data))
            /\ outcome' = Failed(LoginFailedMessage)
            /\ apipc' = "idle"
       ELSE /\ exchange' = exchange \o <<Read(data),
                                        Write(RequestPacket(op, session_token(data)))>>
            /\ apipc' = "await_response"
            /\ UNCHANGED outcome
    /\ UNCHANGED <<apiType, connected, writer, op, info, closes, apiCalls>>
    /\ UNCHANGED <<parseVars, bridgeVars, remoteVars>>

\* mutant: an empty response is returned as a response
read_response_NoCheck(data) ==
    /\ apipc = "await_response"
    /\ exchange' = Append(exchange, Read(data))
    /\ outcome' = Returned(ResponseClass(op), data)
    /\ apipc' = "idle"
    /\ UNCHANGED <<apiType, connected, writer, op, info, closes, apiCalls>>
    /\ UNCHANGED <<parseVars, bridgeVars, remoteVars>>

\* the read after the request returns: the operation fails or returns the
\* response, which keeps the bytes read
read_response(data) ==
    /\ apipc = "await_response"
    /\ exchange' = Append(exchange, Read(data))
    /\ outcome' = IF data = <<>> THEN Failed(RequestFailedMessage(op))
                  ELSE Returned(ResponseClass(op), data)
    /\ apipc' = "idle"
    /\ UNCHANGED <<apiType, connected, writer, op, info, closes, apiCalls>>
    /\ UNCHANGED <<parseVars, bridgeVars, remoteVars>>

\* mutant: close() is called on the stream whether there is one or not
disconnect_AlwaysCloses ==
    /\ apipc = "idle"
    /\ writer # "closed"
    /\ apiCalls < MaxApiCalls
    /\ writer' = "closed"
    /\ closes' = closes + 1
    /\ connected' = FALSE
    /\ apiCalls' = apiCalls + 1
    /\ UNCHANGED <<apiType, apipc, op, exchange, outcome, info>>
    /\ UNCHANGED <<parseVars, bridgeVars, remoteVars>>

\* disconnect(): closes the stream when there is one, else logs at info level
disconnect ==
    /\ apipc = "idle"
    /\ writer # "closed"
    /\ apiCalls < MaxApiCalls
    /\ IF writer = "open"
       THEN /\ writer' = "closed"
            /\ closes' = closes + 1
            /\ UNCHANGED info
       ELSE /\ info' = Append(info, "switcher device not connected")
            /\ UNCHANGED <<writer, closes>>
    /\ connected' = FALSE
    /\ apiCalls' = apiCalls + 1
    /\ UNCHANGED <<apiType, apipc, op, exchange, outcome>>
    /\ UNCHANGED <<parseVars, bridgeVars, remoteVars>>

(***************************************************************************)
(* aioswitcher.api.remotes: SwitcherBreezeRemote, as section 4.4 of the    *)
(* specification and the tests (tests/test_api_tcp_client.py lines         *)
(* 260-338) give it.  A command is written by the key of its payload       *)
(* fragment; the header, the key length byte and the CRC are not part of   *)
(* it.  A message is the sequence of the pieces its f-string joins.        *)
(***************************************************************************)
RemoteIds == {"ELEC7001", "ELEC7022"}

\* the supported_modes lists of the remote definitions, in database order
SupportedModeLists ==
    {<<MODE_AUTO, MODE_DRY, MODE_FAN>>,
     <<MODE_AUTO, MODE_DRY, MODE_FAN, MODE_COOL, MODE_HEAT>>}

\* the remote definitions: every combination of the capabilities, read from
\* a database that has the code of the swing command (has_swing_code) or
\* from one that lacks it, as the ELEC7022 of
\* irset_db_invalid_elec7022_data.json does
RemoteDefs ==
    [remote_id : RemoteIds, supported_modes : SupportedModeLists,
     min_temp : {16}, max_temp : {30}, on_off_type : {"toggle", "separate"},
     swing_type : {"inline", "independent", "none"}, has_swing_code : BOOLEAN]

NoCommand == [kind |-> "none"]

RemoteReturned(command) ==
    [status |-> "returned", error |-> "none", message |-> <<>>, command |-> command]

RemoteRaised(error, message) ==
    [status |-> "raised", error |-> error, message |-> message, command |-> NoCommand]

\* ", ".join(x.display for x in modes)
RECURSIVE JoinDisplays(_)
JoinDisplays(modes) ==
    IF Len(modes) = 0 THEN <<>>
    ELSE IF Len(modes) = 1 THEN <<modes[1].display>>
    ELSE <<modes[1].display, ", ">> \o JoinDisplays(Tail(modes))

\* f'Invalid mode "{mode.display}", available modes for this device are: ...'
InvalidModeMessage(r, mode) ==
    <<"Invalid mode \"", mode.display, "\", available modes for this device are: ">>
        \o JoinDisplays(r.supported_modes)

\* f"Swing special function doesn't apply on this remote {remote_id}"
SwingNotApplicableMessage(r) ==
    <<"Swing special function doesn't apply on this remote ", r.remote_id>>

\* rule 2: the target temperature is clamped to the bounds of the remote
ClampTemp(r, target_temp) ==
    IF target_temp > r.max_temp THEN r.max_temp
    ELSE IF target_temp < r.min_temp THEN r.min_temp
    ELSE target_temp

\* mutant: a request to turn off is answered before the mode is looked at
get_command_OffFirst(r, power, mode, target_temp, fan, swing, current_power) ==
    IF r.on_off_type # "toggle" /\ power = OFF
    THEN RemoteReturned([kind |-> "off"])
    ELSE IF \A i \in 1..Len(r.supported_modes) : r.supported_modes[i] # mode
    THEN RemoteRaised("RuntimeError", InvalidModeMessage(r, mode))
    ELSE IF r.on_off_type = "toggle" /\ power = OFF /\ current_power = OFF
    THEN RemoteReturned([kind |-> "toggle"])
    ELSE RemoteReturned([kind |-> "set", mode |-> mode.display, fan |-> fan.display,
                         temp |-> ClampTemp(r, target_temp),
                         swing |-> IF r.swing_type = "inline" THEN swing.display
                                   ELSE "ignored"])

\* SwitcherBreezeRemote.get_command, rules 1 to 5 of section 4.4
get_command(r, power, mode, target_temp, fan, swing, current_power) ==
    IF \A i \in 1..Len(r.supported_modes) : r.supported_modes[i] # mode
    THEN RemoteRaised("RuntimeError", InvalidModeMessage(r, mode))
    ELSE IF r.on_off_type = "toggle" /\ power = OFF /\ current_power = OFF
    THEN RemoteReturned([kind |-> "toggle"])
    ELSE IF r.on_off_type # "toggle" /\ power = OFF
    THEN RemoteReturned([kind |-> "off"])
    ELSE RemoteReturned([kind |-> "set", mode |-> mode.display, fan |-> fan.display,
                         temp |-> ClampTemp(r, target_temp),
                         swing |-> IF r.swing_type = "inline" THEN swing.display
                                   ELSE "ignored"])

\* mutant: only a remote without any swing is refused
get_swing_command_UnlessNone(r, swing) ==
    IF r.swing_type = "none"
    THEN RemoteRaised("RuntimeWarning", SwingNotApplicableMessage(r))
    ELSE IF ~ r.has_swing_code
    THEN RemoteRaised("RuntimeError", <<>>)
    ELSE RemoteReturned([kind |-> "swing", swing |-> swing.display])

\* SwitcherBreezeRemote.get_swing_command: a remote whose swing is not an
\* independent command raises RuntimeWarning (lines 320-324); one whose
\* definition lacks the code of the swing command raises RuntimeError (lines
\* 327-331, where no message is asserted)
get_swing_command(r, swing) ==
    IF r.swing_type # "independent"
    THEN RemoteRaised("RuntimeWarning", SwingNotApplicableMessage(r))
    ELSE IF ~ r.has_swing_code
    THEN RemoteRaised("RuntimeError", <<>>)
    ELSE RemoteReturned([kind |-> "swing", swing |-> swing.display])

\* the target temperatures asked for: below, within and above the bounds
TargetTemps == {10, 20, 100}

\* the calls made on a remote
GetCommandCalls ==
    [fn : {"get_command"}, remote : RemoteDefs, power : DeviceState,
     mode : ThermostatMode, target_temp : TargetTemps, fan : ThermostatFanLevel,
     swing : ThermostatSwing, current_power : DeviceState]

GetSwingCommandCalls ==
    [fn : {"get_swing_command"}, remote : RemoteDefs, swing : ThermostatSwing]

NoRemoteCall == [fn |-> "none"]

NoRemoteResult == [status |-> "none"]

RemoteInit(remoteCalls) ==
    /\ remoteCall \in remoteCalls
    /\ remoteResult = NoRemoteResult

\* a caller's get_command(...) runs
call_get_command ==
    /\ remoteCall.fn = "get_command"
    /\ remoteResult = NoRemoteResult
    /\ remoteResult' = get_command(remoteCall.remote, remoteCall.power, remoteCall.mode,
                                   remoteCall.target_temp, remoteCall.fan,
                                   remoteCall.swing, remoteCall.current_power)
    /\ UNCHANGED remoteCall
    /\ UNCHANGED <<parseVars, bridgeVars, apiVars>>

\* a caller's get_swing_command(...) runs
call_get_swing_command ==
    /\ remoteCall.fn = "get_swing_command"
    /\ remoteResult = NoRemoteResult
    /\ remoteResult' = get_swing_command(remoteCall.remote, remoteCall.swing)
    /\ UNCHANGED remoteCall
    /\ UNCHANGED <<parseVars, bridgeVars, apiVars>>

Init ==
    /\ datagram = <<>>
    /\ pc = "idle"
    /\ sink = <<>>
    /\ logs = <<>>
    /\ raised = "none"
    /\ arrived = <<>>
    /\ calls = <<>>
    /\ BridgeInit
    /\ ApiInit({"type1"})
    /\ RemoteInit({NoRemoteCall})

Next ==
    \/ \E b \in Bridges : start(b)
    \/ \E t \in TransportIds : start_resume(t)
    \/ \E b \in Bridges : stop(b)
    \/ aenter("b1")
    \/ aexit("b1")
    \/ \E t \in TransportIds : connection_lost(t)
    \/ \E t \in TransportIds, d \in BridgeDatagrams :
          Len(arrived) < MaxReceivedSpec /\ receive(t, d)

Spec == Init /\ [][Next]_vars

\* a datagram has reached an open socket of a bridge and waits to be handled
InitParse ==
    /\ datagram \in Datagrams
    /\ pc = "received"
    /\ sink = <<>>
    /\ logs = <<>>
    /\ raised = "none"
    /\ arrived = <<>>
    /\ calls = <<>>
    /\ BridgeInit
    /\ ApiInit({"type1"})
    /\ RemoteInit({NoRemoteCall})

NextParse == datagram_received

SpecParse == InitParse /\ [][NextParse]_vars

\* one API object and the calls made on it
NextApi ==
    \/ connect
    \/ \E o \in Operations : call(o)
    \/ \E data \in LoginReads : read_login(data)
    \/ \E data \in ResponseReads : read_response(data)
    \/ disconnect

InitApi ==
    /\ datagram = <<>>
    /\ pc = "idle"
    /\ sink = <<>>
    /\ logs = <<>>
    /\ raised = "none"
    /\ arrived = <<>>
    /\ calls = <<>>
    /\ BridgeInit
    /\ ApiInit(ApiTypes)
    /\ RemoteInit({NoRemoteCall})

SpecApi == InitApi /\ [][NextApi]_vars

\* one bridge with the default ports is started and is sent datagrams of both
\* protocol types on both ports
NextPorts ==
    \/ start("b1")
    \/ \E t \in TransportIds : start_resume(t)
    \/ \E t \in TransportIds, d \in PortDatagrams : receive(t, d)

SpecPorts == Init /\ [][NextPorts]_vars

\* one call on one remote
NextRemote ==
    \/ call_get_command
    \/ call_get_swing_command

InitRemote ==
    /\ datagram = <<>>
    /\ pc = "idle"
    /\ sink = <<>>
    /\ logs = <<>>
    /\ raised = "none"
    /\ arrived = <<>>
    /\ calls = <<>>
    /\ BridgeInit
    /\ ApiInit({"type1"})
    /\ RemoteInit(GetCommandCalls \cup GetSwingCommandCalls)

SpecRemote == InitRemote /\ [][NextRemote]_vars

(***************************************************************************)
(* Properties of handling one datagram, checked under SpecParse            *)
(***************************************************************************)
\* the datagram has been handled
Handled == pc = "handled"

\* the devices handed to the sink
Delivered == {sink[i] : i \in 1..Len(sink)}

\* the gate as the specification words it: magic FE F0 and a length of 159,
\* 165 or 168, read from the bytes
MagicAndLength(d) ==
    /\ Len(d) \in {159, 165, 168}
    /\ d[1] = 254
    /\ d[2] = 240

\* the byte at offset off (0-based) of the handled datagram
Byte(off) == datagram[off + 1]

Type1Classes == {"SwitcherWaterHeater", "SwitcherPowerPlug"}

\* C1 as stated: the sink is called if and only if the datagram starts FE F0
\* and is 159, 165 or 168 bytes long.
C1_SinkIffMagicGate ==
    Handled => (Len(sink) > 0 <=> MagicAndLength(datagram))

\* C1, amended: the sink is called only if the datagram starts FE F0 and is
\* 159, 165 or 168 bytes long; every other datagram (a 165-byte one starting
\* DE AD among them) causes no sink call, one debug log record and no exception.
C1_SinkOnlyIfMagicGate ==
    Handled =>
        /\ Len(sink) > 0 => MagicAndLength(datagram)
        /\ ~ MagicAndLength(datagram) =>
              /\ sink = <<>>
              /\ logs = <<Debug("received datagram from an unknown source")>>
              /\ raised = "none"

C1_Witness ==
    /\ Handled
    /\ Len(datagram) = 165
    /\ Byte(0) = 222
    /\ Byte(1) = 173
    /\ sink = <<>>
    /\ logs = <<Debug("received datagram from an unknown source")>>

\* C2: handling a datagram never raises, whatever its bytes are.
C2_HandlingIsTotal ==
    Handled => raised = "none"

\* C3: an accepted datagram whose model code is the hex_rep of no DeviceType
\* yields a warning and no sink call.
C3_UnknownModelWarns ==
    (/\ Handled
     /\ MagicAndLength(datagram)
     /\ \A t \in DeviceType : t.hex_rep # hexlify(<<Byte(74), Byte(75)>>))
    => /\ sink = <<>>
       /\ \E i \in 1..Len(logs) : logs[i][1] = "warning"

\* C4: a water heater or power plug delivered with state off has power 0 and
\* current 0.0, and a water heater delivered with state off has remaining
\* "00:00:00", whatever the power and remaining bytes hold.
C4_OffMeansZero ==
    Handled =>
        \A dev \in Delivered :
            (dev.class \in Type1Classes /\ dev.device_state = OFF) =>
                /\ dev.power_consumption = 0
                /\ dev.electric_current = 0
                /\ dev.class = "SwitcherWaterHeater" =>
                      dev.remaining_time = <<"0", "0", ":", "0", "0", ":", "0", "0">>

C4_Witness ==
    /\ Handled
    /\ MagicAndLength(datagram)
    /\ Byte(135) = 160
    /\ Byte(136) = 5
    /\ Byte(147) = 14
    /\ \E dev \in Delivered :
          /\ dev.class = "SwitcherWaterHeater"
          /\ dev.device_state = OFF
          /\ dev.power_consumption = 0

\* the power the bytes at offset 135 hold, little-endian
WirePower == Byte(135) + 256 * Byte(136)

\* C5 as stated: a delivered water heater or power plug has current 0 if and
\* only if its state is off.
C5_ZeroCurrentIffOff ==
    Handled =>
        \A dev \in Delivered :
            dev.class \in Type1Classes =>
                (dev.electric_current = 0 <=> dev.device_state = OFF)

\* C5, amended: a device delivered with state off has current 0 (so a
\* non-zero current implies state on); one delivered with state on has the
\* current of its power bytes, which is 0 as well when they hold less than
\* 11 W and is not 0 when they hold 22 W or more.
C5_ZeroCurrentIfOffOrLowPower ==
    Handled =>
        \A dev \in Delivered :
            dev.class \in Type1Classes =>
                /\ dev.device_state = OFF => dev.electric_current = 0
                /\ dev.device_state = ON =>
                      /\ WirePower < 11 => dev.electric_current = 0
                      /\ WirePower >= 22 => dev.electric_current # 0

C5_Witness ==
    /\ Handled
    /\ MagicAndLength(datagram)
    /\ WirePower = 10
    /\ \E dev \in Delivered :
          /\ dev.class \in Type1Classes
          /\ dev.device_state = ON
          /\ dev.electric_current = 0

\* C6: a device delivered from 168 bytes is a thermostat, from 159 bytes a
\* shutter, from 165 bytes a water heater or a power plug.
C6_LengthDecidesFamily ==
    Handled =>
        \A dev \in Delivered :
            /\ Len(datagram) = 168 => dev.class = "SwitcherThermostat"
            /\ Len(datagram) = 159 => dev.class = "SwitcherShutter"
            /\ Len(datagram) = 165 => dev.class \in Type1Classes

\* C7 as stated: the IP of a type 1 device is the four bytes at offset 76 in
\* reverse order, b3.b2.b1.b0 (04 03 02 01 gives 1.2.3.4).
C7_Type1IpReversed ==
    Handled =>
        \A dev \in Delivered :
            dev.class \in Type1Classes =>
                dev.ip_address = <<Byte(79), Byte(78), Byte(77), Byte(76)>>

\* C7, amended: the IP of a type 1 device is the four bytes at offset 76 in
\* wire order, b0.b1.b2.b3 (04 03 02 01 gives 4.3.2.1).
C7_Type1IpWireOrder ==
    Handled =>
        \A dev \in Delivered :
            dev.class \in Type1Classes =>
                dev.ip_address = <<Byte(76), Byte(77), Byte(78), Byte(79)>>

C7_Witness ==
    /\ Handled
    /\ MagicAndLength(datagram)
    /\ <<Byte(76), Byte(77), Byte(78), Byte(79)>> = <<4, 3, 2, 1>>
    /\ \E dev \in Delivered :
          /\ dev.class \in Type1Classes
          /\ dev.ip_address = <<4, 3, 2, 1>>

\* a 165-byte water heater datagram with state 01, power A0 05 and remaining
\* 0E 10 00 00 has been handled
S1Datagram ==
    /\ Handled
    /\ MagicAndLength(datagram)
    /\ Len(datagram) = 165
    /\ hexlify(<<Byte(74), Byte(75)>>) \in {t.hex_rep : t \in {MINI, TOUCH, V2_ESP, V2_QCA, V4}}
    /\ Byte(133) = 1
    /\ <<Byte(135), Byte(136)>> = <<160, 5>>
    /\ <<Byte(147), Byte(148), Byte(149), Byte(150)>> = <<14, 16, 0, 0>>
    /\ Len(sink) > 0

\* C8 as stated: that datagram is delivered as on, 1440 W, 6.5 A, "01:08:46".
C8_S1Remaining010846 ==
    S1Datagram =>
        /\ sink[1].device_state = ON
        /\ sink[1].power_consumption = 1440
        /\ sink[1].electric_current = 65
        /\ sink[1].remaining_time = <<"0", "1", ":", "0", "8", ":", "4", "6">>

\* C8, amended: that datagram is delivered as on, 1440 W, 6.5 A and remaining
\* "01:08:30": the little-endian uint32 0E 10 00 00 is 4110 seconds.
C8_S1Remaining010830 ==
    S1Datagram =>
        /\ sink[1].device_state = ON
        /\ sink[1].power_consumption = 1440
        /\ sink[1].electric_current = 65
        /\ sink[1].remaining_time = <<"0", "1", ":", "0", "8", ":", "3", "0">>

C8_Witness ==
    /\ S1Datagram
    /\ sink[1].class = "SwitcherWaterHeater"
    /\ sink[1].power_consumption = 1440

\* C9: every shutter delivered has a position between 0 and 100.
C9_ShutterPositionInRange ==
    Handled =>
        \A dev \in Delivered :
            dev.class = "SwitcherShutter" =>
                (dev.position >= 0 /\ dev.position <= 100)

(***************************************************************************)
(* Properties of the bridge's life cycle, checked under Spec               *)
(***************************************************************************)
\* the transports the start() calls of bridge b have opened
OpenedBy(b) == {t \in TransportIds : towner[t] = b}

\* a start() of bridge b is suspended
Starting(b) == \E t \in TransportIds : towner[t] = b /\ waiter[t] # "none"

\* C10: once stop() (or __aexit__) has returned and no start() is in progress,
\* every transport the bridge's start() opened has had close() called on it and
\* is closing or closed.
C10_StopReleasesSockets ==
    \A b \in Bridges :
        (lastCall[b] \in {"stop", "aexit"} /\ ~ Starting(b)) =>
            \A t \in OpenedBy(b) :
                /\ closeCalls[t] >= 1
                /\ tstate[t] \in {"closing", "closed"}

C10_Witness ==
    /\ lastCall["b1"] = "stop"
    /\ ~ Starting("b1")
    /\ Cardinality(OpenedBy("b1")) = 2
    /\ \A t \in OpenedBy("b1") : closeCalls[t] = 1 /\ tstate[t] = "closing"

\* the ports bridge b is configured with
Ports(b) == {broadcast_ports(b)[i] : i \in 1..Len(broadcast_ports(b))}

\* C11 as stated: is_running is true exactly when the last completed call was
\* a successful start().
C11_RunningIffLastCallStartOk ==
    \A b \in Bridges : is_running[b] <=> lastCall[b] = "start_ok"

\* C11, amended: is_running is false on a new bridge, true when the last
\* completed call is a successful start(), false when it is a stop(); it is
\* true only if start() has bound every configured port.  A start() that
\* raises, at its first port or at a later one, leaves is_running as it was:
\* every step after which the last completed call of a bridge is a start()
\* that raised leaves the bridge's is_running unchanged, so it stays true if
\* the bridge was running.
C11_RunningAfterStartUntilStop ==
    /\ [](\A b \in Bridges :
             /\ lastCall[b] = "none" => ~ is_running[b]
             /\ lastCall[b] = "start_ok" => is_running[b]
             /\ lastCall[b] \in {"stop", "aexit"} => ~ is_running[b]
             /\ is_running[b] => \A p \in Ports(b) : transports[b][p] # 0)
    /\ [][\A b \in Bridges :
             lastCall'[b] = "start_raised" => is_running'[b] = is_running[b]]_vars

\* b1 is running on its two sockets, the only ones ever made, and its last
\* completed call is a start() that raised at the first port, which b1 holds
C11_Witness ==
    /\ lastCall["b1"] = "start_raised"
    /\ is_running["b1"]
    /\ Len(tstate) = 2
    /\ \A p \in Ports("b1") :
          transports["b1"][p] # 0 /\ tstate[transports["b1"][p]] = "open"

\* this step resumes the start() that waits on transport t
ResumeStep(t) == waiter[t] # "none" /\ waiter'[t] = "none"

\* the start() that waits on transport t has a port left to bind
HasNextPort(t) == PortIndex(towner[t], tport[t]) < Len(broadcast_ports(towner[t]))

\* the port it binds when it is resumed
NextPort(t) == broadcast_ports(towner[t])[PortIndex(towner[t], tport[t]) + 1]

\* this step binds a socket
BindsSocket == Len(tstate') > Len(tstate)

\* this step is a call of start() on bridge b, made by the caller or by
\* __aenter__
CallStep(b) == start(b) \/ aenter(b)

\* this step is a call of start() on bridge b whose first port is in use
FirstBindFails(b) == CallStep(b) /\ PortInUse(broadcast_ports(b)[1])

\* this step resumes a start() of bridge b whose next port is in use
LaterBindFails(b) ==
    \E t \in TransportIds :
        towner[t] = b /\ ResumeStep(t) /\ HasNextPort(t) /\ PortInUse(NextPort(t))

\* C12: when the bind of a configured port fails, the first one (in the call
\* of start()) or a later one (when start() is resumed), start() raises to
\* its caller, binds no later port (no socket is made and the call waits on
\* none) and leaves is_running as it was; no socket is bound to a port that
\* is in use.
C12_BindFailureSurfaced ==
    [][/\ \A b \in Bridges :
             (FirstBindFails(b) \/ LaterBindFails(b)) =>
                 /\ lastCall'[b] = "start_raised"
                 /\ is_running' = is_running
                 /\ tstate' = tstate
                 /\ tport' = tport
                 /\ \A u \in TransportIds : waiter'[u] # "none" => waiter[u] # "none"
       /\ BindsSocket => ~ PortInUse(tport'[Len(tstate')])]_vars

\* a start() of b1 has raised at its first port, 20002, which an earlier
\* start() of b1 holds: b1 is not running and port 20003, the later port,
\* is free and has no socket
C12_Witness ==
    /\ lastCall["b1"] = "start_raised"
    /\ ~ is_running["b1"]
    /\ Len(tstate) = 1
    /\ tport[1] = SWITCHER_UDP_PORT_TYPE1
    /\ towner[1] = "b1"
    /\ ~ PortInUse(SWITCHER_UDP_PORT_TYPE2)

\* the devices datagram k of arrived was handed to the sink with, in call order
DevicesOf(k) ==
    LET mine == SelectSeq(calls, LAMBDA c : c.index = k)
    IN  [i \in 1..Len(mine) |-> mine[i].device]

\* C13: every sink call is made while the datagram it belongs to is being
\* handled, on that datagram's port; a datagram that yields a device has its
\* sink call made by the time datagram_received returns; and on one port the
\* sink calls are in the order the datagrams were received.
C13_SinkCallsInReceiveOrder ==
    /\ \A i \in 1..Len(calls) :
          /\ calls[i].index \in 1..Len(arrived)
          /\ arrived[calls[i].index].port = calls[i].port
    /\ \A k \in 1..Len(arrived) :
          DevicesOf(k) = BridgeOutcomes[arrived[k].data].sink
    /\ \A i, j \in 1..Len(calls) :
          (calls[i].port = calls[j].port /\ calls[i].index < calls[j].index) => i < j

C13_Witness ==
    /\ Len(calls) = 2
    /\ calls[1].port = calls[2].port
    /\ calls[1].index = 1
    /\ calls[2].index = 2

\* bridge a is running and holds an open socket on port p
HeldOpenByRunning(a, p) ==
    /\ is_running[a]
    /\ p \in Ports(a)
    /\ transports[a][p] # 0
    /\ tstate[transports[a][p]] = "open"

\* C14: no two open sockets are bound to the same port, whichever bridges
\* opened them; and while a running bridge holds an open socket on a port, the
\* bind of that port by start() of any bridge (that bridge included) fails.
C14_PortsAreExclusive ==
    /\ [](\A t1, t2 \in TransportIds :
              (t1 # t2 /\ tport[t1] = tport[t2]) =>
                  ~ (tstate[t1] = "open" /\ tstate[t2] = "open"))
    /\ [][/\ \A a \in Bridges, t \in TransportIds :
                 (/\ ResumeStep(t)
                  /\ HasNextPort(t)
                  /\ HeldOpenByRunning(a, NextPort(t))) =>
                     /\ lastCall'[towner[t]] = "start_raised"
                     /\ tstate' = tstate
          /\ \A c \in Bridges :
                BindsSocket => ~ HeldOpenByRunning(c, tport'[Len(tstate')])]_vars

C14_Witness ==
    /\ is_running["b1"]
    /\ tstate[transports["b1"][SWITCHER_UDP_PORT_TYPE2]] = "open"
    /\ lastCall["b2"] = "start_raised"
    /\ OpenedBy("b2") = {}

\* the k-th datagram received is the water heater datagram, the datagram of
\* unknown origin, the shutter datagram: told by its bytes
IsHeaterDatagram(k) == Len(arrived[k].data) = 165 /\ arrived[k].data[1] = 254

IsUnknownDatagram(k) == arrived[k].data[1] = 222

IsShutterDatagram(k) == Len(arrived[k].data) = 159 /\ arrived[k].data[1] = 254

\* C15: two datagrams of equal bytes are handed to the sink with equal
\* devices, whatever was handled between and before them and on whichever
\* port; wherever it stands among the datagrams received, the water heater
\* datagram causes one sink call with the same water heater record, the
\* shutter datagram one sink call with the same shutter record, and the
\* datagram of unknown origin no sink call; a datagram received twice causes
\* two sink calls with equal records.  Checked under SpecPorts: one bridge,
\* both ports, up to MaxReceived datagrams.
C15_SameBytesSameDevices ==
    /\ \A i, j \in 1..Len(arrived) :
          arrived[i].data = arrived[j].data => DevicesOf(i) = DevicesOf(j)
    /\ \A k \in 1..Len(arrived) :
          /\ IsUnknownDatagram(k) => DevicesOf(k) = <<>>
          /\ IsHeaterDatagram(k) =>
                /\ Len(DevicesOf(k)) = 1
                /\ DevicesOf(k)[1].class = "SwitcherWaterHeater"
                /\ DevicesOf(k)[1].device_type.name = "MINI"
                /\ DevicesOf(k)[1].device_id = <<"3", "9", "3", "3", "a", "c">>
                /\ DevicesOf(k)[1].device_state.display = "on"
                /\ DevicesOf(k)[1].power_consumption = 1440
                /\ DevicesOf(k)[1].remaining_time
                      = <<"0", "1", ":", "0", "8", ":", "3", "0">>
          /\ IsShutterDatagram(k) =>
                /\ Len(DevicesOf(k)) = 1
                /\ DevicesOf(k)[1].class = "SwitcherShutter"
                /\ DevicesOf(k)[1].device_type.name = "RUNNER"
                /\ DevicesOf(k)[1].device_id = <<"3", "9", "3", "3", "a", "c">>
                /\ DevicesOf(k)[1].position = 55
    /\ Len(calls) = Cardinality({k \in 1..Len(arrived) : ~ IsUnknownDatagram(k)})

\* the water heater datagram was received second and fourth, on different
\* ports, after the shutter datagram and with the datagram of unknown origin
\* between: the sink was called three times, twice with equal water heater
\* records (the device_id of the shutter record is the same)
C15_Witness ==
    /\ Len(arrived) = 4
    /\ IsShutterDatagram(1)
    /\ IsHeaterDatagram(2)
    /\ IsUnknownDatagram(3)
    /\ arrived[4].data = arrived[2].data
    /\ arrived[4].port # arrived[2].port
    /\ Len(calls) = 3
    /\ calls[2].device = calls[3].device
    /\ calls[2].index = 2
    /\ calls[3].index = 4

(***************************************************************************)
(* Properties of the API session, checked under SpecApi                    *)
(***************************************************************************)
\* the position in exchange of the call of the operation in progress or last run
LastCallAt ==
    CHOOSE i \in 1..Len(exchange) :
        /\ exchange[i].kind = "call"
        /\ \A j \in (i + 1)..Len(exchange) : exchange[j].kind # "call"

\* the writes and reads of that operation, in order
OpExchange == SubSeq(exchange, LastCallAt + 1, Len(exchange))
OpWrites == SelectSeq(OpExchange, LAMBDA e : e.kind = "write")
OpReads == SelectSeq(OpExchange, LAMBDA e : e.kind = "read")

\* an operation has been called and has ended
OpEnded == op # "none" /\ apipc = "idle"

LoginCommands == {"login", "login2"}

\* C16: an operation whose first read (the one after the login packet) returns
\* no bytes fails with "login request was not successful"; its only write is
\* the login packet, its request is never written.
C16_EmptyLoginReadFails ==
    (OpEnded /\ OpReads[1].data = <<>>) =>
        /\ outcome.status = "raised"
        /\ outcome.message = "login request was not successful"
        /\ Len(OpWrites) = 1
        /\ OpWrites[1].packet.command \in LoginCommands
        /\ \A i \in 1..Len(OpExchange) :
              OpExchange[i].kind = "write" => OpExchange[i].packet.command # op

C16_Witness ==
    /\ OpEnded
    /\ op = "set_position"
    /\ OpReads[1].data = <<>>
    /\ outcome.message = "login request was not successful"
    /\ Len(OpWrites) = 1

\* C17: a state query whose login response is valid and whose second read
\* returns no bytes fails with an error naming the operation; two writes have
\* been made.
C17_EmptyResponseReadFails ==
    (/\ OpEnded
     /\ op \in {"get_state", "get_breeze_state", "get_shutter_state"}
     /\ Len(OpReads) = 2
     /\ OpReads[2].data = <<>>) =>
        /\ outcome.status = "raised"
        /\ op = "get_state" => outcome.message = "get state request was not successful"
        /\ op = "get_breeze_state" =>
              outcome.message = "get breeze state request was not successful"
        /\ op = "get_shutter_state" =>
              outcome.message = "get shutter state request was not successful"
        /\ Len(OpWrites) = 2

C17_Witness ==
    /\ OpEnded
    /\ op = "get_shutter_state"
    /\ Len(OpReads) = 2
    /\ OpReads[1].data # <<>>
    /\ OpReads[2].data = <<>>
    /\ outcome.message = "get shutter state request was not successful"

\* C18: at every moment, a request written has the read of the login response
\* right before it; an operation that returns a response has made exactly
\* write(login), read, write(request), read, and its unparsed_response is what
\* the second read returned.
C18_SerialExchange ==
    /\ \A i \in 1..Len(exchange) :
          (exchange[i].kind = "write" /\ exchange[i].packet.command \notin LoginCommands) =>
              (i > 1 /\ exchange[i - 1].kind = "read")
    /\ (OpEnded /\ outcome.status = "returned") =>
          /\ [i \in 1..Len(OpExchange) |-> OpExchange[i].kind]
                = <<"write", "read", "write", "read">>
          /\ OpExchange[1].packet.command \in LoginCommands
          /\ OpExchange[3].packet.command = op
          /\ outcome.unparsed_response = OpExchange[4].data

C18_Witness ==
    /\ OpEnded
    /\ op = "control_device"
    /\ outcome.status = "returned"
    /\ outcome.unparsed_response = <<254, 240, 1, 0, 2, 0>>
    /\ Len(OpWrites) = 2

\* the requests written so far, as positions in exchange
RequestsAt ==
    {i \in 1..Len(exchange) :
        exchange[i].kind = "write" /\ exchange[i].packet.command \notin LoginCommands}

\* C19: the session field of every request is the four bytes at offset 16 of
\* the login response read right before it, byte for byte; it is not the
\* pre-login placeholder, and not the token of an earlier login of the
\* connection unless that is the token of this login too.
C19_TokenFromThisLogin ==
    \A i \in RequestsAt :
        /\ i > 1
        /\ exchange[i - 1].kind = "read"
        /\ exchange[i].packet.session = Slice(exchange[i - 1].data, 16, 20)
        /\ exchange[i].packet.session # PRE_LOGIN_SESSION

C19_Witness ==
    \E i, j \in RequestsAt :
        /\ i < j
        /\ exchange[i].packet.session = <<52, 18, 205, 0>>
        /\ exchange[j].packet.session = <<120, 86, 52, 18>>

\* C20: disconnect() on an API that was never connected logs "switcher device
\* not connected" at info level and does nothing else: no stream appears, no
\* close() and no write is made, connected stays false.
C20_DisconnectBeforeConnect ==
    [][(writer = "none" /\ apiCalls' # apiCalls /\ ~ connected') =>
          /\ info' = Append(info, "switcher device not connected")
          /\ writer' = "none"
          /\ closes' = closes
          /\ exchange' = exchange
          /\ outcome' = outcome
          /\ connected = FALSE]_vars

C20_Witness ==
    /\ writer = "none"
    /\ ~ connected
    /\ info = <<"switcher device not connected">>
    /\ closes = 0
    /\ exchange = <<>>

(***************************************************************************)
(* Properties of one call on a Breeze remote, checked under SpecRemote     *)
(***************************************************************************)
\* the call on the remote has run
RemoteCalled == remoteResult # NoRemoteResult

\* the modes the remote of the call supports
SupportedModes ==
    {remoteCall.remote.supported_modes[i] : i \in 1..Len(remoteCall.remote.supported_modes)}

\* the pieces of the message of the error raised
MessagePieces == {remoteResult.message[i] : i \in 1..Len(remoteResult.message)}

\* C21: get_command with a mode the remote does not support raises, whatever
\* the power, the temperature, the fan level, the swing and the current power
\* are; the message names the requested mode and lists every supported mode
\* ('Invalid mode "cool", available modes for this device are: auto, dry,
\* fan' for a remote of auto, dry and fan asked for cool); no command comes back
C21_UnsupportedModeRaises ==
    (RemoteCalled /\ remoteCall.fn = "get_command" /\ remoteCall.mode \notin SupportedModes)
        => /\ remoteResult.status = "raised"
           /\ remoteResult.command = NoCommand
           /\ Len(remoteResult.message) >= 3
           /\ remoteResult.message[2] = remoteCall.mode.display
           /\ \A m \in SupportedModes :
                 \E i \in 4..Len(remoteResult.message) : remoteResult.message[i] = m.display
           /\ (remoteCall.remote.supported_modes = <<MODE_AUTO, MODE_DRY, MODE_FAN>>
               /\ remoteCall.mode = MODE_COOL)
                 => remoteResult.message =
                      <<"Invalid mode \"", "cool",
                        "\", available modes for this device are: ",
                        "auto", ", ", "dry", ", ", "fan">>

\* a remote of auto, dry and fan with separate on and off commands was asked
\* to turn off in mode cool, and the call raised
C21_Witness ==
    /\ RemoteCalled
    /\ remoteCall.fn = "get_command"
    /\ remoteCall.remote.supported_modes = <<MODE_AUTO, MODE_DRY, MODE_FAN>>
    /\ remoteCall.remote.on_off_type = "separate"
    /\ remoteCall.mode = MODE_COOL
    /\ remoteCall.power = OFF
    /\ remoteResult.status = "raised"

\* C22: get_swing_command returns a command only for a remote whose swing is
\* an independent command; for every other remote it raises, for swing on
\* and for swing off, with a message that names the remote_id
C22_SwingOnlyWhenIndependent ==
    (RemoteCalled /\ remoteCall.fn = "get_swing_command")
        => /\ remoteResult.status = "returned"
                => remoteCall.remote.swing_type = "independent"
           /\ remoteCall.remote.swing_type # "independent"
                => /\ remoteResult.status = "raised"
                   /\ remoteResult.command = NoCommand
                   /\ remoteCall.remote.remote_id \in MessagePieces

\* ELEC7001, whose swing is part of the main command, was asked for the
\* command that turns the swing off, and the call raised
C22_Witness ==
    /\ RemoteCalled
    /\ remoteCall.fn = "get_swing_command"
    /\ remoteCall.remote.remote_id = "ELEC7001"
    /\ remoteCall.remote.swing_type = "inline"
    /\ remoteCall.swing = SWING_OFF
    /\ remoteResult.status = "raised"
    /\ "ELEC7001" \in MessagePieces

(***************************************************************************)
(* More properties of handling one datagram, checked under SpecParse       *)
(***************************************************************************)
\* the two hex digits of a byte read as a decimal number, when they are digits
DigitsAsDecimal(b) == (b \div 16) * 10 + (b % 16)

IsDecimalDigits(b) == (b \div 16) < 10 /\ (b % 16) < 10

\* the datagram passes the magic and length test and its model code is that
\* of a shutter (0c01 or 0c02)
ShutterDatagram == MagicAndLength(datagram) /\ Byte(74) = 12 /\ Byte(75) \in {1, 2}

\* the same for a thermostat (0e01)
BreezeDatagram == MagicAndLength(datagram) /\ Byte(74) = 14 /\ Byte(75) = 1

\* C23 (as the code has it): the position of a delivered shutter is the value
\* of the byte at offset 135 plus the two hex digits of the byte at offset 136
\* read as a decimal number; a shutter whose byte at offset 136 does not read
\* as a decimal number is not delivered
C23_ShutterPositionHexPlusDecimal ==
    Handled =>
        /\ \A dev \in Delivered :
              dev.class = "SwitcherShutter" =>
                  /\ IsDecimalDigits(Byte(136))
                  /\ dev.position = Byte(135) + DigitsAsDecimal(Byte(136))
        /\ (ShutterDatagram /\ ~ IsDecimalDigits(Byte(136))) => sink = <<>>

\* C23 as stated: the byte at offset 135 contributes its digits read as a
\* decimal number and the byte at offset 136 its value
C23_ShutterPositionDecimalPlusHex ==
    Handled =>
        \A dev \in Delivered :
            dev.class = "SwitcherShutter" =>
                dev.position = DigitsAsDecimal(Byte(135)) + Byte(136)

\* a shutter with bytes 32 05 at offset 135 was delivered with position 55
C23_Witness ==
    /\ Handled
    /\ ShutterDatagram
    /\ Byte(135) = 50
    /\ Byte(136) = 5
    /\ \E dev \in Delivered : dev.class = "SwitcherShutter" /\ dev.position = 55

\* the ThermostatMode of a mode byte, cool for a byte that is no mode code
ModeOfByte(b) ==
    CASE b = 1 -> MODE_AUTO
      [] b = 2 -> MODE_DRY
      [] b = 3 -> MODE_FAN
      [] b = 5 -> MODE_HEAT
      [] OTHER -> MODE_COOL

\* the datagram with the byte at offset off replaced by b
WithByte(off, b) == [datagram EXCEPT ![off + 1] = b]

\* C24: the mode of a delivered thermostat is the ThermostatMode whose code is
\* the byte at offset 138, and cool when that byte is no mode code; decoding
\* the mode never fails, and a thermostat datagram with an unknown mode byte
\* is handled exactly as the same datagram with the code of cool (04)
C24_UnknownModeIsCool ==
    (Handled /\ BreezeDatagram) =>
        /\ \A dev \in Delivered : dev.mode = ModeOfByte(Byte(138))
        /\ get_thermostat_mode(datagram).raised = "none"
        /\ Byte(138) \notin 1..5 =>
              LET cool == _parse_device_from_datagram(WithByte(138, 4))
              IN  /\ sink = cool.sink
                  /\ raised = cool.raised
                  /\ logs = cool.logs

\* a thermostat with mode byte 00 was delivered, in mode cool
C24_Witness ==
    /\ Handled
    /\ BreezeDatagram
    /\ Byte(138) = 0
    /\ \E dev \in Delivered : dev.class = "SwitcherThermostat" /\ dev.mode = MODE_COOL

\* the category of each record class
CategoryOfClass(class) ==
    CASE class = "SwitcherWaterHeater" -> WATER_HEATER
      [] class = "SwitcherPowerPlug" -> POWER_PLUG_CATEGORY
      [] class = "SwitcherShutter" -> SHUTTER
      [] OTHER -> THERMOSTAT

\* C27: handling one datagram calls the sink at most once; the category of
\* the record delivered is the category of the DeviceType whose code is the
\* two bytes at offset 74, and the record carries that DeviceType
C27_OneRecordOfTheTypesCategory ==
    Handled =>
        /\ Len(sink) <= 1
        /\ \A dev \in Delivered :
              /\ dev.device_type \in DeviceType
              /\ dev.device_type.hex_rep = hexlify(<<Byte(74), Byte(75)>>)
              /\ CategoryOfClass(dev.class) = dev.device_type.category

\* a Runner Mini (code 0c02) was delivered, once, as a shutter
C27_Witness ==
    /\ Handled
    /\ MagicAndLength(datagram)
    /\ Byte(74) = 12
    /\ Byte(75) = 2
    /\ Len(sink) = 1
    /\ sink[1].class = "SwitcherShutter"
    /\ sink[1].device_type = RUNNER_MINI

Type2Classes == {"SwitcherShutter", "SwitcherThermostat"}

\* the first octet of a MAC address "XX:XX:XX:XX:XX:XX", as written
FirstMacOctet(mac) == SubSeq(mac, 1, 2)

\* a byte as an octet of a MAC address is written
MacOctet(b) == Upper(hexlify(<<b>>))

\* C29: the IP of a delivered shutter or thermostat is the bytes 77..80 in
\* wire order and its MAC starts with byte 80, so the last octet of the IP is
\* the first octet of the MAC; the IP of a delivered water heater or power
\* plug is the bytes 76..79 and its MAC starts with byte 80, which is no part
\* of the IP
C29_Type2IpSharesByte80WithMac ==
    Handled =>
        \A dev \in Delivered :
            /\ FirstMacOctet(dev.mac_address) = MacOctet(Byte(80))
            /\ dev.class \in Type2Classes =>
                  /\ dev.ip_address = <<Byte(77), Byte(78), Byte(79), Byte(80)>>
                  /\ FirstMacOctet(dev.mac_address) = MacOctet(dev.ip_address[4])
            /\ dev.class \in Type1Classes =>
                  dev.ip_address = <<Byte(76), Byte(77), Byte(78), Byte(79)>>

\* a thermostat with bytes 04 03 02 01 AB at offset 76 was delivered with IP
\* 3.2.1.171 and a MAC that starts with AB
C29_Witness ==
    /\ Handled
    /\ MagicAndLength(datagram)
    /\ <<Byte(76), Byte(77), Byte(78), Byte(79), Byte(80)>> = <<4, 3, 2, 1, 171>>
    /\ \E dev \in Delivered :
          /\ dev.class = "SwitcherThermostat"
          /\ dev.ip_address = <<3, 2, 1, 171>>
          /\ FirstMacOctet(dev.mac_address) = <<"A", "B">>

\* the state byte of the datagram with the other of the values 00 and 01
OtherStateByte == IF Byte(133) = 1 THEN 0 ELSE 1

\* C30: a delivered shutter has state ON whatever the byte at offset 133
\* holds, its record has no power and no current, and a shutter datagram is
\* handled exactly as the same datagram with the other state byte
C30_ShutterAlwaysOn ==
    Handled =>
        /\ \A dev \in Delivered :
              dev.class = "SwitcherShutter" =>
                  /\ dev.device_state = ON
                  /\ "power_consumption" \notin DOMAIN dev
                  /\ "electric_current" \notin DOMAIN dev
        /\ ShutterDatagram =>
              LET other == _parse_device_from_datagram(WithByte(133, OtherStateByte))
              IN  /\ sink = other.sink
                  /\ raised = other.raised
                  /\ logs = other.logs

\* a shutter whose state byte is 00 was delivered, with state ON
C30_Witness ==
    /\ Handled
    /\ ShutterDatagram
    /\ Byte(133) = 0
    /\ \E dev \in Delivered : dev.class = "SwitcherShutter" /\ dev.device_state = ON

(***************************************************************************)
(* More properties of the bridge's life cycle, checked under Spec          *)
(***************************************************************************)
\* the recorded transports of bridge b that are open
OpenTransports(b) ==
    {transports[b][p] : p \in Ports(b)} \cap {t \in TransportIds : tstate[t] = "open"}

\* C25: a bridge whose is_running is false and that has no start() in
\* progress holds no open transport: when it is new, after stop(), and after
\* a start() or an __aenter__ that bound an earlier port and failed on a
\* later one
C25_NotRunningHoldsNoOpenTransport ==
    \A b \in Bridges :
        (~ is_running[b] /\ ~ Starting(b)) => OpenTransports(b) = {}

\* the first port of bridge b is held by a socket of another bridge
HeldByOther(b) ==
    \E t \in TransportIds :
        /\ towner[t] # b
        /\ tport[t] = broadcast_ports(b)[1]
        /\ tstate[t] # "closed"

\* this step is a start() of bridge b that raises at its first bind: start()
\* has raised and no start() that was suspended has been resumed
StartRaisesAtOnce(b) ==
    /\ lastCall'[b] = "start_raised"
    /\ lastCall[b] # "start_raised"
    /\ waiter' = waiter

\* C26: a start() called after stop() has returned, with no other start() of
\* the bridge in progress, binds the ports again: unless another bridge holds
\* the port, it does not raise at its first bind
C26_StartAfterStopBinds ==
    [][\A b \in Bridges :
          (/\ lastCall[b] \in {"stop", "aexit"}
           /\ ~ Starting(b)
           /\ ~ HeldByOther(b)) => ~ StartRaisesAtOnce(b)]_vars

(***************************************************************************)
(* Properties of the ports of one bridge, checked under SpecPorts          *)
(***************************************************************************)
\* the k-th datagram received arrived on a port other than the port of the
\* category of the device it yields
OnForeignPort(k) ==
    /\ DevicesOf(k) # <<>>
    /\ SWITCHER_DEVICE_TO_UDP_PORT[DevicesOf(k)[1].device_type.category] # arrived[k].port

\* C28: what handling a datagram does is decided by its bytes alone: on
\* either port the devices handed to the sink are the devices the handler
\* yields for those bytes, so the same bytes received on port 20002 and on
\* port 20003 give the same devices
C28_PortDoesNotMatter ==
    /\ \A k \in 1..Len(arrived) :
          DevicesOf(k) = _parse_device_from_datagram(arrived[k].data).sink
    /\ \A i, j \in 1..Len(arrived) :
          (arrived[i].data = arrived[j].data /\ arrived[i].port # arrived[j].port)
              => DevicesOf(i) = DevicesOf(j)

\* a water heater datagram received on port 20003 and a shutter datagram
\* received on port 20002 were both delivered
C28_Witness ==
    \E i, j \in 1..Len(arrived) :
        /\ OnForeignPort(i)
        /\ OnForeignPort(j)
        /\ arrived[i].port = SWITCHER_UDP_PORT_TYPE2
        /\ DevicesOf(i)[1].class = "SwitcherWaterHeater"
        /\ arrived[j].port = SWITCHER_UDP_PORT_TYPE1
        /\ DevicesOf(j)[1].class = "SwitcherShutter"

====
